---------------------------- MODULE Spec2Model ----------------------------
(***************************************************************************)
(* Model of the document processor (rust_services/document_processor).     *)
(*                                                                         *)
(* The text engine (src/text_processor.rs): the chunking engine,           *)
(* chunk_text, as a state machine with one step per loop iteration, and    *)
(* the text normalizer, clean_text.                                        *)
(*                                                                         *)
(* The document entry points: the type detector (src/utils.rs), the        *)
(* dispatcher parse_document with its extractors and extract_metadata      *)
(* (src/parsers), and the batch entry point (src/lib.rs).                  *)
(*                                                                         *)
(* A text is a sequence of characters, each a string; the characters of    *)
(* the texts that are chunked are one byte long, so that lengths and       *)
(* offsets are byte lengths and byte offsets, 0-based as in the Rust       *)
(* source; Slice(t, a, b) is the Rust slice t[a..b].                       *)
(***************************************************************************)
EXTENDS Integers, Sequences, FiniteSets, TLC

VARIABLES
    api,            \* the entry point of this call: "chunk", "clean", "detect",
                    \* "parse", "metadata", "batch", "language" or "csv"
    pc,             \* position of the call
    text,           \* the text argument
    chunk_size,     \* chunk_text: chunk_size
    overlap,        \* chunk_text: overlap
    opts,           \* ChunkOptions or CleanOptions of the call
    para,           \* frame of chunk_by_paragraphs
    sent,           \* frame of chunk_by_sentences
    chr,            \* frame of chunk_by_characters
    result,         \* the value returned
    filename,       \* parse_document, extract_metadata: the filename argument
    content,        \* parse_document, extract_metadata: the byte buffer
    lib,            \* what the extraction library makes of the buffer
    file_type,      \* parse_document: the kind the type detector returned
    trace,          \* parse_document: the steps taken so far, in order
    documents,      \* process_batch_documents: the items of the batch
    csv             \* parse_csv: the records of the input and the text built

\* the variables of the document entry points
docvars == <<filename, content, lib, file_type, trace, documents, csv>>

vars == <<api, pc, text, chunk_size, overlap, opts, para, sent, chr, result,
          filename, content, lib, file_type, trace, documents, csv>>

\* parse_csv before its first statement: no record, an empty text
NoCsv ==
    [records |-> 0, malformed |-> 0, blank |-> FALSE,
     row_count |-> 0, header |-> FALSE, data_lines |-> 0, marker |-> 0]

\* no document is being processed: the text engine takes no document
NoDocument ==
    /\ filename = <<>>
    /\ content = [bytes |-> <<>>, pad |-> 0, archive |-> <<>>]
    /\ lib = "fail"
    /\ file_type = ""
    /\ trace = <<>>
    /\ documents = <<>>
    /\ csv = NoCsv

---------------------------------------------------------------------------
(* Bounds of the model *)

MaxLen == 5
MaxChunkSize == 3
MaxOverlap == 1
MaxMinChunk == 1
MaxCleanLen == 6
MaxOptLen == 3
MaxWideLen == 2
MaxPieces == 2
ExtraRecords == 2

---------------------------------------------------------------------------
(* Characters and string primitives (std::str) *)

SP == " "
NL == "\n"
TAB == "\t"
CR == "\r"
DOT == "."

Whitespace == {SP, NL, TAB, CR}

is_whitespace(c) == c \in Whitespace

Min(S) == CHOOSE x \in S : \A y \in S : x <= y
Max(S) == CHOOSE x \in S : \A y \in S : x >= y

\* t[a..b]
Slice(t, a, b) == SubSeq(t, a + 1, b)

\* str::trim
trim(t) ==
    LET keep == {i \in 1..Len(t) : ~is_whitespace(t[i])}
    IN  IF keep = {} THEN <<>> ELSE SubSeq(t, Min(keep), Max(keep))

\* str::find(char): offset of the first occurrence, -1 for None
find(t, c) ==
    LET hit == {i \in 1..Len(t) : t[i] = c}
    IN  IF hit = {} THEN -1 ELSE Min(hit) - 1

\* str::rfind(char): offset of the last occurrence, -1 for None
rfind(t, c) ==
    LET hit == {i \in 1..Len(t) : t[i] = c}
    IN  IF hit = {} THEN -1 ELSE Max(hit) - 1

\* str::find(&str): offset of the first occurrence of pattern p, -1 for None
find_str(t, p) ==
    LET hit == {i \in 0..(Len(t) - Len(p)) : Slice(t, i, i + Len(p)) = p}
    IN  IF hit = {} THEN -1 ELSE Min(hit)

\* str::split(pattern): the pieces between the non-overlapping matches of p,
\* found left to right; empty pieces are kept
RECURSIVE split(_, _)
split(t, p) ==
    LET i == find_str(t, p)
    IN  IF i = -1 THEN <<t>>
        ELSE <<Slice(t, 0, i)>> \o split(Slice(t, i + Len(p), Len(t)), p)

\* the length of the run of characters of S that t starts with
RECURSIVE run_length(_, _)
run_length(t, S) ==
    IF t = <<>> \/ Head(t) \notin S THEN 0 ELSE 1 + run_length(Tail(t), S)

\* the bytes of a text that continue a character of several bytes (0x80 to
\* 0xBF); every other element of a text starts a character
ContinuationBytes == {"0xBD", "0xA0", "0xA5"}

\* str::is_char_boundary(i): the start, the end, or the first byte of a
\* character
is_char_boundary(t, i) ==
    i = 0 \/ i = Len(t) \/ (i > 0 /\ i < Len(t) /\ t[i + 1] \notin ContinuationBytes)

\* text.chars().nth(n): Some(character), given by its first byte, or None
\* ("none") when the text has n characters or fewer
nth_char(t, n) ==
    LET chars == SelectSeq(t, LAMBDA b : b \notin ContinuationBytes)
    IN  IF n < Len(chars) THEN chars[n + 1] ELSE "none"

\* Iterator::filter on a vector of strings
RECURSIVE filter_min_len(_, _)
filter_min_len(chunks, n) ==
    IF chunks = <<>> THEN <<>>
    ELSE (IF Len(Head(chunks)) >= n THEN <<Head(chunks)>> ELSE <<>>)
             \o filter_min_len(Tail(chunks), n)

RECURSIVE map_trim_nonempty(_)
map_trim_nonempty(pieces) ==
    IF pieces = <<>> THEN <<>>
    ELSE (IF trim(Head(pieces)) # <<>> THEN <<trim(Head(pieces))>> ELSE <<>>)
             \o map_trim_nonempty(Tail(pieces))

\* the texts of at most n characters of an alphabet
RECURSIVE TextsUpTo(_, _)
TextsUpTo(alphabet, n) ==
    IF n = 0 THEN {<<>>}
    ELSE LET shorter == TextsUpTo(alphabet, n - 1)
         IN  shorter \cup {Append(t, c) : t \in {s \in shorter : Len(s) = n - 1},
                                          c \in alphabet}

\* the concatenations of at most n pieces
RECURSIVE Concatenations(_, _)
Concatenations(pieces, n) ==
    IF n = 0 THEN {<<>>}
    ELSE LET shorter == Concatenations(pieces, n - 1)
         IN  shorter \cup {s \o p : s \in shorter, p \in pieces}

---------------------------------------------------------------------------
(* Chunking engine: pure helpers *)

\* Regex::new(r"(?<=[.!?])\s+(?=[A-Z])"): the regex crate has no look-around,
\* so the pattern is rejected and the constructor returns Err
sentence_regex_is_ok == FALSE

SentenceEnd == {DOT, "!", "?"}
UpperCase ==
    {"A", "B", "C", "D", "E", "F", "G", "H", "I", "J", "K", "L", "M",
     "N", "O", "P", "Q", "R", "S", "T", "U", "V", "W", "X", "Y", "Z"}

\* sentence_regex.split(text): the pieces between the matches of
\* (?<=[.!?])\s+(?=[A-Z]), a whitespace run that follows a sentence end and
\* is followed by an upper-case letter
RECURSIVE split_on_sentence_regex(_)
split_on_sentence_regex(t) ==
    LET ws(i) == run_length(Slice(t, i, Len(t)), Whitespace)
        hit == {i \in 1..(Len(t) - 1) :
                   /\ t[i] \in SentenceEnd
                   /\ ws(i) > 0
                   /\ i + ws(i) < Len(t)
                   /\ t[i + ws(i) + 1] \in UpperCase}
    IN  IF hit = {} THEN <<t>>
        ELSE <<Slice(t, 0, Min(hit))>>
                 \o split_on_sentence_regex(Slice(t, Min(hit) + ws(Min(hit)), Len(t)))

\* the fallback branch of split_into_sentences: text.split('.'), each piece
\* trimmed, empty pieces dropped (the periods are not kept)
split_on_periods(t) == map_trim_nonempty(split(t, <<DOT>>))

split_into_sentences(t) ==
    IF sentence_regex_is_ok
    THEN map_trim_nonempty(split_on_sentence_regex(t))
    ELSE split_on_periods(t)

get_text_overlap(t, overlap_size) ==
    IF Len(t) <= overlap_size THEN t
    ELSE LET start_pos == Len(t) - overlap_size
             space_pos == find(Slice(t, start_pos, Len(t)), SP)
         IN  IF space_pos # -1
             THEN trim(Slice(t, start_pos + space_pos, Len(t)))
             ELSE Slice(t, start_pos, Len(t))

\* one pass of the packing loop body of chunk_by_paragraphs / chunk_by_sentences
\* for a unit that fits: sep is "\n\n" resp. " ".  Yields the new
\* chunks and current_chunk.
pack_unit(chunks, current_chunk, unit, sep) ==
    IF Len(current_chunk) + Len(unit) + Len(sep) > chunk_size /\ current_chunk # <<>>
    THEN LET pushed == Append(chunks, trim(current_chunk))
         IN  [chunks |-> pushed,
              current_chunk |->
                  IF overlap > 0 /\ Len(pushed) > 1
                  THEN get_text_overlap(current_chunk, overlap) \o sep \o unit
                  ELSE unit]
    ELSE [chunks |-> chunks,
          current_chunk |->
              (IF current_chunk # <<>> THEN current_chunk \o sep ELSE current_chunk)
                  \o unit]

\* the slice &text[start_pos..] of get_text_overlap, made by pack_unit when it
\* pushes a chunk after the first, panics when start_pos is inside a character
pack_unit_panics(chunks, current_chunk, unit, sep) ==
    /\ Len(current_chunk) + Len(unit) + Len(sep) > chunk_size /\ current_chunk # <<>>
    /\ overlap > 0 /\ Len(chunks) + 1 > 1
    /\ Len(current_chunk) > overlap
    /\ ~is_char_boundary(current_chunk, Len(current_chunk) - overlap)

\* "Finish current chunk if it has content" before an oversized unit
flush_current(chunks, current_chunk) ==
    IF current_chunk # <<>> THEN Append(chunks, trim(current_chunk)) ELSE chunks

\* "Add remaining chunk" followed by "Filter out chunks that are too small"
finish_chunks(chunks, current_chunk) ==
    filter_min_len(
        IF trim(current_chunk) # <<>> THEN Append(chunks, trim(current_chunk))
        ELSE chunks,
        opts.min_chunk_size)

NoFrame == [units |-> <<>>, chunks |-> <<>>, current_chunk |-> <<>>, ret |-> "none"]
NoChars == [text |-> <<>>, start |-> 0, chunks |-> <<>>, iterations |-> 0, ret |-> "none"]

enter_sentences(t, ret) ==
    [units |-> split_into_sentences(t), chunks |-> <<>>,
     current_chunk |-> <<>>, ret |-> ret]

enter_characters(t, ret) ==
    [text |-> t, start |-> 0, chunks |-> <<>>, iterations |-> 0, ret |-> ret]

---------------------------------------------------------------------------
(* Chunking engine: the call, one action per loop iteration *)

chunk_text_call(fits) ==
    /\ api = "chunk" /\ pc = "call"
    /\ IF fits
       THEN /\ result' = <<text>>
            /\ pc' = "done"
            /\ UNCHANGED <<para, sent, chr>>
       ELSE IF opts.respect_paragraphs
       THEN /\ para' = [units |-> split(text, <<NL, NL>>), chunks |-> <<>>,
                        current_chunk |-> <<>>, ret |-> "top"]
            /\ pc' = "para"
            /\ UNCHANGED <<sent, chr, result>>
       ELSE IF opts.respect_sentences
       THEN /\ sent' = enter_sentences(text, "top")
            /\ pc' = "sent"
            /\ UNCHANGED <<para, chr, result>>
       ELSE /\ chr' = enter_characters(text, "top")
            /\ pc' = "chars"
            /\ UNCHANGED <<para, sent, result>>
    /\ UNCHANGED <<docvars, api, text, chunk_size, overlap, opts>>

\* a chunk_text whose short-circuit test is `<` instead of `<=`
chunk_text_strict == chunk_text_call(Len(text) < chunk_size)

\* chunk_text: `if text.len() <= chunk_size { return vec![text.to_string()] }`
chunk_text == chunk_text_call(Len(text) <= chunk_size)

\* one iteration of `for paragraph in paragraphs`
chunk_by_paragraphs_step ==
    /\ api = "chunk" /\ pc = "para" /\ para.units # <<>>
    /\ LET paragraph == Head(para.units)
           rest == Tail(para.units)
       IN  IF Len(paragraph) > chunk_size
           THEN /\ para' = [para EXCEPT !.units = rest,
                                !.chunks = flush_current(para.chunks, para.current_chunk),
                                !.current_chunk = <<>>]
                /\ IF opts.respect_sentences
                   THEN /\ sent' = enter_sentences(paragraph, "para")
                        /\ pc' = "sent"
                        /\ chr' = chr
                   ELSE /\ chr' = enter_characters(paragraph, "para")
                        /\ pc' = "chars"
                        /\ sent' = sent
           ELSE IF pack_unit_panics(para.chunks, para.current_chunk, paragraph, <<NL, NL>>)
           THEN pc' = "panic" /\ UNCHANGED <<para, sent, chr>>
           ELSE LET p == pack_unit(para.chunks, para.current_chunk, paragraph, <<NL, NL>>)
                IN  /\ para' = [para EXCEPT !.units = rest, !.chunks = p.chunks,
                                    !.current_chunk = p.current_chunk]
                    /\ UNCHANGED <<pc, sent, chr>>
    /\ UNCHANGED <<docvars, api, text, chunk_size, overlap, opts, result>>

\* the end of chunk_by_paragraphs (always called from chunk_text)
chunk_by_paragraphs_return ==
    /\ api = "chunk" /\ pc = "para" /\ para.units = <<>>
    /\ result' = finish_chunks(para.chunks, para.current_chunk)
    /\ pc' = "done"
    /\ UNCHANGED <<docvars, api, text, chunk_size, overlap, opts, para, sent, chr>>

\* one iteration of `for sentence in sentences`
chunk_by_sentences_step ==
    /\ api = "chunk" /\ pc = "sent" /\ sent.units # <<>>
    /\ LET sentence == Head(sent.units)
           rest == Tail(sent.units)
       IN  IF Len(sentence) > chunk_size
           THEN /\ sent' = [sent EXCEPT !.units = rest,
                                !.chunks = flush_current(sent.chunks, sent.current_chunk),
                                !.current_chunk = <<>>]
                /\ chr' = enter_characters(sentence, "sent")
                /\ pc' = "chars"
           ELSE IF pack_unit_panics(sent.chunks, sent.current_chunk, sentence, <<SP>>)
           THEN pc' = "panic" /\ UNCHANGED <<sent, chr>>
           ELSE LET p == pack_unit(sent.chunks, sent.current_chunk, sentence, <<SP>>)
                IN  /\ sent' = [sent EXCEPT !.units = rest, !.chunks = p.chunks,
                                    !.current_chunk = p.current_chunk]
                    /\ UNCHANGED <<pc, chr>>
    /\ UNCHANGED <<docvars, api, text, chunk_size, overlap, opts, para, result>>

\* the end of chunk_by_sentences: back to chunk_by_paragraphs
\* (chunks.extend(para_chunks); continue) or to chunk_text
chunk_by_sentences_return ==
    /\ api = "chunk" /\ pc = "sent" /\ sent.units = <<>>
    /\ LET out == finish_chunks(sent.chunks, sent.current_chunk)
       IN  IF sent.ret = "para"
           THEN /\ para' = [para EXCEPT !.chunks = para.chunks \o out]
                /\ pc' = "para"
                /\ result' = result
           ELSE /\ result' = out
                /\ pc' = "done"
                /\ para' = para
    /\ UNCHANGED <<docvars, api, text, chunk_size, overlap, opts, sent, chr>>

\* a chunk_by_characters without the "Skip whitespace" loop
skip_whitespace_absent(t, from) == from

\* "Skip whitespace": the first offset from `from` on that is the end of the
\* text or whose character (text.chars().nth(start)) is not whitespace; the
\* loop stops as well where nth returns None, and there unwrap panics
skip_whitespace(t, from) ==
    LET chars == SelectSeq(t, LAMBDA b : b \notin ContinuationBytes)
        \* text.chars().nth(j), "none" for None
        nth(j) == IF j < Len(chars) THEN chars[j + 1] ELSE "none"
    IN  Min({j \in from..Len(t) : j = Len(t) \/ ~is_whitespace(nth(j))})

\* one iteration of `while start < text.len()`
chunk_by_characters_step ==
    /\ api = "chunk" /\ pc = "chars"
    /\ Len(chr.text) > chunk_size
    /\ chr.start < Len(chr.text)
    /\ LET t == chr.text
           start == chr.start
           end == IF start + chunk_size < Len(t) THEN start + chunk_size ELSE Len(t)
           space_pos == rfind(Slice(t, start, end), SP)
           chunk_end == IF end < Len(t) /\ space_pos # -1 THEN start + space_pos ELSE end
           moved == IF overlap > 0 /\ chunk_end > overlap
                    THEN chunk_end - overlap ELSE chunk_end
           \* text[start..end] is made when end < text.len(), and
           \* text[start..chunk_end] always
           slices == is_char_boundary(t, start) /\ is_char_boundary(t, end)
       IN  \E chunk \in {trim(Slice(t, start, chunk_end))},
              skipped \in {skip_whitespace(t, moved)} :
              IF ~slices \/ (skipped # Len(t) /\ nth_char(t, skipped) = "none")
              THEN pc' = "panic" /\ chr' = chr
              ELSE IF chunk # <<>> /\ Len(chr.chunks) >= Len(t)
              THEN \* Every iteration but the first pushes a chunk, and an
                   \* iteration depends on `start` alone, which has Len(t)
                   \* values: with Len(t) chunks pushed and one more to push,
                   \* a window start has come back and the loop never ends.
                   \* It pushes chunks until the allocation fails.
                   /\ pc' = "oom"
                   /\ chr' = chr
              ELSE /\ chr' = [chr EXCEPT
                                 !.chunks = IF chunk # <<>> THEN Append(@, chunk) ELSE @,
                                 !.start = skipped,
                                 \* the iterations made, counted up to Len(t) + 1
                                 !.iterations = Min({@ + 1, Len(t) + 1})]
                   /\ pc' = pc
    /\ UNCHANGED <<docvars, api, text, chunk_size, overlap, opts, para, sent, result>>

\* the end of chunk_by_characters (the early return for a text that fits, or
\* the end of the loop): back to the caller
chunk_by_characters_return ==
    /\ api = "chunk" /\ pc = "chars"
    /\ Len(chr.text) <= chunk_size \/ chr.start >= Len(chr.text)
    /\ LET out == IF Len(chr.text) <= chunk_size THEN <<chr.text>> ELSE chr.chunks
       IN  CASE chr.ret = "para" ->
                   /\ para' = [para EXCEPT !.chunks = para.chunks \o out]
                   /\ pc' = "para"
                   /\ UNCHANGED <<sent, result>>
             [] chr.ret = "sent" ->
                   /\ sent' = [sent EXCEPT !.chunks = sent.chunks \o out]
                   /\ pc' = "sent"
                   /\ UNCHANGED <<para, result>>
             [] OTHER ->
                   /\ result' = out
                   /\ pc' = "done"
                   /\ UNCHANGED <<para, sent>>
    /\ UNCHANGED <<docvars, api, text, chunk_size, overlap, opts, chr>>

---------------------------------------------------------------------------
(* The calls of chunk_text that are explored *)

ChunkAlphabet == {"a", SP, DOT, NL}

ChunkOptionsSet ==
    [respect_sentences : BOOLEAN, respect_paragraphs : BOOLEAN,
     min_chunk_size : 0..MaxMinChunk]

\* impl Default for ChunkOptions
DefaultMinChunkSize == 100
DefaultChunkOptions ==
    [respect_sentences |-> TRUE, respect_paragraphs |-> TRUE,
     min_chunk_size |-> DefaultMinChunkSize]

\* the call of test_chunk_text: chunk_text(text, 30, 5, None)
TestChunkText ==
    <<"T", "h", "i", "s", " ", "i", "s", " ", "s", "e", "n", "t", "e", "n",
      "c", "e", " ", "o", "n", "e", ".", " ", "T", "h", "i", "s", " ", "i",
      "s", " ", "s", "e", "n", "t", "e", "n", "c", "e", " ", "t", "w", "o",
      ".", " ", "T", "h", "i", "s", " ", "i", "s", " ", "s", "e", "n", "t",
      "e", "n", "c", "e", " ", "t", "h", "r", "e", "e", ".">>
TestChunkSize == 30
TestOverlap == 5

\* the text of test_split_into_sentences
TestSentencesText ==
    <<"T", "h", "i", "s", " ", "i", "s", " ", "f", "i", "r", "s", "t", ".",
      " ", "T", "h", "i", "s", " ", "i", "s", " ", "s", "e", "c", "o", "n",
      "d", "!", " ", "I", "s", " ", "t", "h", "i", "s", " ", "t", "h", "i",
      "r", "d", "?">>

ChunkInit ==
    /\ api = "chunk" /\ pc = "call"
    /\ \/ /\ text \in TextsUpTo(ChunkAlphabet, MaxLen)
          /\ chunk_size \in 1..MaxChunkSize
          /\ overlap \in 0..MaxOverlap
          /\ opts \in ChunkOptionsSet
       \/ /\ text = TestChunkText
          /\ chunk_size = TestChunkSize
          /\ overlap = TestOverlap
          /\ opts = DefaultChunkOptions
       \* the text of test_split_into_sentences, in sentence mode
       \/ /\ text = TestSentencesText
          /\ chunk_size = TestChunkSize
          /\ overlap = TestOverlap
          /\ opts = [DefaultChunkOptions EXCEPT !.respect_paragraphs = FALSE]
       \* texts with characters of three bytes: of "a", " " and the two
       \* characters U+4F60 (E4 BD A0) and U+597D (E5 A5 BD), at most
       \* MaxWideLen of them
       \/ /\ text \in Concatenations({<<"a">>, <<SP>>, <<"0xE4", "0xBD", "0xA0">>,
                                      <<"0xE5", "0xA5", "0xBD">>}, MaxWideLen)
          /\ chunk_size \in 1..MaxChunkSize
          /\ overlap \in 0..MaxOverlap
          /\ opts \in ChunkOptionsSet
    /\ para = NoFrame /\ sent = NoFrame /\ chr = NoChars
    /\ result = <<>>
    /\ NoDocument

ChunkNext ==
    \/ chunk_text
    \/ chunk_by_paragraphs_step
    \/ chunk_by_paragraphs_return
    \/ chunk_by_sentences_step
    \/ chunk_by_sentences_return
    \/ chunk_by_characters_step
    \/ chunk_by_characters_return

SpecChunk == ChunkInit /\ [][ChunkNext]_vars

---------------------------------------------------------------------------
(* Text normalizer: clean_text and its five steps.  Characters outside      *)
(* ASCII are named by their code point.                                     *)

U0301 == "U+0301"   \* combining acute accent
U00E9 == "U+00E9"   \* e with acute
U00C3 == "U+00C3"   \* A with tilde
U00A9 == "U+00A9"   \* copyright sign
BEL == "U+0007"     \* a control character

\* str::replace(pattern, with): every non-overlapping match, left to right
RECURSIVE replace(_, _, _)
replace(t, p, r) ==
    LET i == find_str(t, p)
    IN  IF p = <<>> \/ i = -1 THEN t
        ELSE Slice(t, 0, i) \o r \o replace(Slice(t, i + Len(p), Len(t)), p, r)

\* result.nfc().collect(): canonical composition; of the characters explored
\* only the pair e + U+0301 composes
nfc(t) == replace(t, <<"e", U0301>>, <<U00E9>>)

\* the replacement table, in its order: (wrong, correct).  U+00E2 U+20AC is
\* what the bytes E2 80 of a punctuation mark become when they are read as
\* Windows-1252, U+00C3 what the byte C3 of an accented letter becomes.  The
\* third character of the em dash and en dash entries is a plain quote in the
\* source; it is read as the character the comment of the entry stands for
\* (byte 94 is U+201D, byte 93 is U+201C).
replacements ==
    << <<<<"U+00E2", "U+20AC", "U+2122">>, <<"'">>>>,       \* right single quote
       <<<<"U+00E2", "U+20AC", "U+0153">>, <<"\"">>>>,      \* left double quote
       <<<<"U+00E2", "U+20AC">>, <<"\"">>>>,                \* right double quote
       <<<<"U+00E2", "U+20AC", "U+201D">>, <<"U+2014">>>>,  \* em dash
       <<<<"U+00E2", "U+20AC", "U+201C">>, <<"U+2013">>>>,  \* en dash
       <<<<"U+00E2", "U+20AC", "U+00A2">>, <<"U+2022">>>>,  \* bullet
       <<<<U00C3, "U+00A1">>, <<"U+00E1">>>>,               \* a with acute
       <<<<U00C3, U00A9>>, <<U00E9>>>>,                     \* e with acute
       <<<<U00C3, "U+00AD">>, <<"U+00ED">>>>,               \* i with acute
       <<<<U00C3, "U+00B3">>, <<"U+00F3">>>>,               \* o with acute
       <<<<U00C3, "U+00BA">>, <<"U+00FA">>>> >>             \* u with acute

RECURSIVE apply_replacements(_, _)
apply_replacements(t, table) ==
    IF table = <<>> THEN t
    ELSE apply_replacements(replace(t, Head(table)[1], Head(table)[2]), Tail(table))

fix_encoding_issues(t) == apply_replacements(t, replacements)

\* char::is_control: the category Cc
is_control(c) == c \in {BEL, NL, TAB, CR}

remove_control_characters(t) ==
    SelectSeq(t, LAMBDA c : ~is_control(c) \/ c \in {NL, TAB, CR})

\* a normalize_line_endings that replaces '\r' before "\r\n"
normalize_line_endings_cr_first(t) ==
    replace(replace(t, <<CR>>, <<NL>>), <<CR, NL>>, <<NL>>)

normalize_line_endings(t) ==
    replace(replace(t, <<CR, NL>>, <<NL>>), <<CR>>, <<NL>>)

\* Regex `[ \t]+` replace_all with " "
RECURSIVE replace_blank_runs(_)
replace_blank_runs(t) ==
    IF t = <<>> THEN <<>>
    ELSE IF Head(t) \in {SP, TAB}
    THEN <<SP>> \o replace_blank_runs(Slice(t, run_length(t, {SP, TAB}), Len(t)))
    ELSE <<Head(t)>> \o replace_blank_runs(Tail(t))

\* Regex `\n{3,}` replace_all with "\n\n"
RECURSIVE replace_newline_runs(_)
replace_newline_runs(t) ==
    IF t = <<>> THEN <<>>
    ELSE IF Head(t) = NL
    THEN LET n == run_length(t, {NL})
         IN  (IF n >= 3 THEN <<NL, NL>> ELSE Slice(t, 0, n))
                 \o replace_newline_runs(Slice(t, n, Len(t)))
    ELSE <<Head(t)>> \o replace_newline_runs(Tail(t))

\* str::lines: the pieces between "\n", without the empty piece after a
\* final "\n", each without the "\r" of a "\r\n" ending
lines(t) ==
    LET pieces == split(t, <<NL>>)
        kept == IF pieces[Len(pieces)] = <<>>
                THEN SubSeq(pieces, 1, Len(pieces) - 1) ELSE pieces
    IN  [i \in 1..Len(kept) |->
            IF i < Len(pieces) /\ kept[i] # <<>> /\ kept[i][Len(kept[i])] = CR
            THEN SubSeq(kept[i], 1, Len(kept[i]) - 1) ELSE kept[i]]

\* [..].join(sep)
RECURSIVE join(_, _)
join(parts, sep) ==
    IF parts = <<>> THEN <<>>
    ELSE IF Len(parts) = 1 THEN parts[1]
    ELSE parts[1] \o sep \o join(Tail(parts), sep)

trim_lines(t) == join([i \in 1..Len(lines(t)) |-> trim(lines(t)[i])], <<NL>>)

normalize_whitespace(t) ==
    trim(trim_lines(replace_newline_runs(replace_blank_runs(t))))

\* a clean_text whose control-character step is gated by normalize_line_endings
clean_text_wrong_gate(t, o) ==
    LET r1 == IF o.normalize_unicode THEN nfc(t) ELSE t
        r2 == IF o.fix_encoding THEN fix_encoding_issues(r1) ELSE r1
        r3 == IF o.normalize_line_endings THEN remove_control_characters(r2) ELSE r2
        r4 == IF o.normalize_line_endings THEN normalize_line_endings(r3) ELSE r3
        r5 == IF o.remove_extra_whitespace THEN normalize_whitespace(r4) ELSE r4
    IN  r5

clean_text(t, o) ==
    LET r1 == IF o.normalize_unicode THEN nfc(t) ELSE t
        r2 == IF o.fix_encoding THEN fix_encoding_issues(r1) ELSE r1
        r3 == IF o.remove_control_chars THEN remove_control_characters(r2) ELSE r2
        r4 == IF o.normalize_line_endings THEN normalize_line_endings(r3) ELSE r3
        r5 == IF o.remove_extra_whitespace THEN normalize_whitespace(r4) ELSE r4
    IN  r5

\* the call clean_text(text, Some(&opts))
clean_text_call ==
    /\ api = "clean" /\ pc = "call"
    /\ result' = clean_text(text, opts)
    /\ pc' = "done"
    /\ UNCHANGED <<docvars, api, text, chunk_size, overlap, opts, para, sent, chr>>

---------------------------------------------------------------------------
(* The calls of clean_text that are explored *)

WhitespaceAlphabet == {"a", SP, TAB, NL, CR}
CleanAlphabet == WhitespaceAlphabet \cup {BEL, "e", U0301, U00C3, U00A9}

CleanOptionsSet ==
    [normalize_unicode : BOOLEAN, remove_extra_whitespace : BOOLEAN,
     fix_encoding : BOOLEAN, remove_control_chars : BOOLEAN,
     normalize_line_endings : BOOLEAN]

\* impl Default for CleanOptions
DefaultCleanOptions ==
    [normalize_unicode |-> TRUE, remove_extra_whitespace |-> TRUE,
     fix_encoding |-> TRUE, remove_control_chars |-> TRUE,
     normalize_line_endings |-> TRUE]

\* test_clean_text
TestCleanText ==
    <<"H", "e", "l", "l", "o", SP, SP, SP, "w", "o", "r", "l",
      "d", "!", CR, NL, "T", "h", "i", "s", SP, "i", "s", SP,
      "a", SP, "t", "e", "s", "t", ".">>
TestCleanExpected ==
    <<"H", "e", "l", "l", "o", SP, "w", "o", "r", "l", "d", "!",
      NL, "T", "h", "i", "s", SP, "i", "s", SP, "a", SP, "t",
      "e", "s", "t", ".">>

\* test_normalize_whitespace
TestWhitespaceText ==
    <<"H", "e", "l", "l", "o", SP, SP, SP, SP, "w", "o", "r",
      "l", "d", NL, NL, NL, NL, "N", "e", "x", "t", SP, "p",
      "a", "r", "a", "g", "r", "a", "p", "h">>

CleanInit ==
    /\ api = "clean" /\ pc = "call"
    /\ \/ /\ text \in TextsUpTo(WhitespaceAlphabet, MaxCleanLen)
          /\ opts = DefaultCleanOptions
       \/ /\ text \in TextsUpTo(CleanAlphabet, MaxOptLen)
          /\ opts \in CleanOptionsSet
       \/ /\ text \in {TestCleanText, TestWhitespaceText}
          /\ opts = DefaultCleanOptions
       \* the wrong sequences of the replacement table, alone and between
       \* letters
       \/ /\ \E i \in DOMAIN replacements : \E before, after \in {<<>>, <<"a">>} :
                text = before \o replacements[i][1] \o after
          /\ opts \in CleanOptionsSet
    /\ chunk_size = 0 /\ overlap = 0
    /\ para = NoFrame /\ sent = NoFrame /\ chr = NoChars
    /\ result = <<>>
    /\ NoDocument

SpecClean == CleanInit /\ [][clean_text_call]_vars

---------------------------------------------------------------------------
(* Claims about chunk_text, checked under SpecChunk *)

Returned == api = "chunk" /\ pc = "done"

IsPrefix(p, t) == Len(p) <= Len(t) /\ SubSeq(t, 1, Len(p)) = p

\* C1: chunk_text terminates and returns a finite sequence of chunks for
\* every text, every chunk_size >= 1 and every overlap < chunk_size, in every
\* mode.  pc = "oom" is the call that never returns: the character loop has
\* come back to a window start it had before and pushes chunks for ever.
C1_ChunkTextTerminates ==
    (api = "chunk" /\ chunk_size >= 1 /\ overlap < chunk_size) => pc # "oom"

\* C2: every chunk chunk_text returns has length >= min_chunk_size, in every
\* mode and in the short-circuit.
C2_MinChunkSize ==
    Returned => \A i \in 1..Len(result) : Len(result[i]) >= opts.min_chunk_size

\* C3: for overlap > 0 and at least two chunks returned, the word-aligned
\* suffix of length overlap of every chunk, the first included, is a prefix
\* of the next chunk.
C3_OverlapInvariant ==
    (Returned /\ overlap > 0 /\ overlap < chunk_size /\ Len(result) >= 2) =>
        \A i \in 1..(Len(result) - 1) :
            IsPrefix(get_text_overlap(result[i], overlap), result[i + 1])

\* C4: every chunk chunk_text returns has length <= chunk_size, for every
\* overlap < chunk_size, chunks seeded with an overlap included.
C4_SizeBounded ==
    (Returned /\ overlap < chunk_size) =>
        \A i \in 1..Len(result) : Len(result[i]) <= chunk_size

\* C5: whenever len(text) <= chunk_size, chunk_text returns exactly [text],
\* the text unmodified, for every overlap and every ChunkOptions.
C5_ShortCircuit ==
    (Returned /\ Len(text) <= chunk_size) => result = <<text>>

\* C5 witness: a text with surrounding whitespace that fits is returned
\* whole, with overlap > 0 and paragraph mode requested
C5_Witness ==
    /\ Returned /\ Len(text) <= chunk_size /\ Len(text) > 0
    /\ trim(text) # text /\ overlap > 0 /\ opts.respect_paragraphs
    /\ result = <<text>>

\* C6: for a text longer than chunk_size made of sentences none longer than
\* chunk_size, chunk_text with the default ChunkOptions returns more than
\* one segment, the first of length <= chunk_size; so does the call of
\* test_chunk_text.
C6_DefaultOptionsSegments ==
    (/\ Returned /\ opts = DefaultChunkOptions
     /\ Len(text) > chunk_size
     /\ \A i \in 1..Len(split_into_sentences(text)) :
            Len(split_into_sentences(text)[i]) <= chunk_size)
        => (Len(result) > 1 /\ Len(result[1]) <= chunk_size)

---------------------------------------------------------------------------
(* Claims about clean_text, checked under SpecClean *)

Cleaned == api = "clean" /\ pc = "done"

CleanedByDefault == Cleaned /\ opts = DefaultCleanOptions

Count(t, c) == Cardinality({i \in 1..Len(t) : t[i] = c})

\* the line breaks of a text: every "\r\n", every lone "\r", every lone "\n"
LineBreaks(t) ==
    Cardinality({i \in 1..Len(t) :
        \/ t[i] = CR
        \/ t[i] = NL /\ (i = 1 \/ t[i - 1] # CR)})

HasNewlineRun(t, n) ==
    \E i \in 1..(Len(t) - n + 1) : \A k \in 0..(n - 1) : t[i + k] = NL

\* t without the characters of S
RECURSIVE Without(_, _)
Without(t, S) ==
    IF t = <<>> THEN <<>>
    ELSE (IF Head(t) \in S THEN <<>> ELSE <<Head(t)>>) \o Without(Tail(t), S)

\* C7: clean_text with the default CleanOptions is idempotent:
\* clean_text(clean_text(t)) = clean_text(t) for every text t.
C7_CleanIdempotent ==
    CleanedByDefault => clean_text(result, opts) = result

\* C8: the output of clean_text with default options never contains a run of
\* three or more consecutive newlines.
C8_NoTripleNewline ==
    CleanedByDefault => ~HasNewlineRun(result, 3)

\* the properties of the output that C9 lists before its last clause: no
\* carriage return, no tab, no two consecutive spaces, no line that starts
\* or ends with a space, no whitespace at either end
C9_CanonicalWhitespace ==
    /\ Count(result, CR) = 0 /\ Count(result, TAB) = 0
    /\ \A i \in 1..(Len(result) - 1) : ~(result[i] = SP /\ result[i + 1] = SP)
    /\ \A i \in 1..Len(result) :
           result[i] = SP =>
               /\ i > 1 /\ result[i - 1] # NL
               /\ i < Len(result) /\ result[i + 1] # NL
    /\ result # <<>> =>
           ~is_whitespace(result[1]) /\ ~is_whitespace(result[Len(result)])

\* the "\n" of the text all belong to a "\r\n"
NoLoneNewline(t) == \A i \in 1..Len(t) : t[i] = NL => (i > 1 /\ t[i - 1] = CR)

\* C9 as stated: the output of clean_text with default options is in that
\* form, and every "\r\n" and lone "\r" of the input appears in it as a
\* single "\n": a text whose line breaks are all "\r\n" or "\r" has as many
\* "\n" in its output as it has "\r".
C9_EveryLineBreakAppears ==
    CleanedByDefault =>
        /\ C9_CanonicalWhitespace
        /\ NoLoneNewline(text) => Count(result, NL) = Count(text, CR)

\* C9 as amended: the output is in that form, every "\r\n" and lone "\r" of
\* the input gives at most one "\n" of the output (never two, never a "\r"),
\* and the text of test_clean_text becomes "Hello world!\nThis is a test.".
C9_LineBreaksAtMostOnce ==
    CleanedByDefault =>
        /\ C9_CanonicalWhitespace
        /\ Count(result, NL) <= LineBreaks(text)
        /\ text = TestCleanText => result = TestCleanExpected

\* C9 witness: a text with a "\r\n", a lone "\r" and a tab has been cleaned
\* and both line breaks are newlines of the output
C9_Witness ==
    /\ CleanedByDefault
    /\ \E i \in 1..(Len(text) - 1) : text[i] = CR /\ text[i + 1] = NL
    /\ \E i \in 1..(Len(text) - 1) : text[i] = CR /\ text[i + 1] # NL
    /\ Count(text, TAB) > 0
    /\ Count(result, NL) = 2

OnlyOption(name) ==
    \A f \in DOMAIN opts : opts[f] <=> (f = name)

\* C10: the five steps are independently gated: with all five options false
\* clean_text returns its input, and with exactly one option true the result
\* is that of the one step; with only remove_control_chars every control
\* character except \n, \t and \r is removed and nothing else changes.
C10_IndependentGates ==
    Cleaned =>
        /\ (\A f \in DOMAIN opts : ~opts[f]) => result = text
        /\ OnlyOption("normalize_unicode") => result = nfc(text)
        /\ OnlyOption("fix_encoding") => result = fix_encoding_issues(text)
        /\ OnlyOption("remove_control_chars") => result = Without(text, {BEL})
        /\ OnlyOption("normalize_line_endings") =>
               /\ result = normalize_line_endings(text)
               /\ Without(result, {NL}) = Without(text, {CR, NL})
        /\ OnlyOption("remove_extra_whitespace") => result = normalize_whitespace(text)

\* C10 witness: only remove_control_chars is set and the text holds a control
\* character, a "\r" and a tab: the control character alone is gone
C10_Witness ==
    /\ Cleaned /\ OnlyOption("remove_control_chars")
    /\ Count(text, BEL) > 0 /\ Count(text, CR) > 0 /\ Count(text, TAB) > 0
    /\ result = Without(text, {BEL}) /\ result # text

\* C30: with fix_encoding enabled, a text that is the wrong sequence of an
\* entry of the replacement table is turned into the glyph of that same
\* entry; no earlier entry whose wrong sequence is a prefix takes the
\* occurrence first.
C30_OwnGlyph ==
    (Cleaned /\ opts.fix_encoding) =>
        \A i \in DOMAIN replacements :
            text = replacements[i][1] => result = replacements[i][2]

---------------------------------------------------------------------------
(* Documents (rust_services/document_processor/src/utils.rs, parsers/,     *)
(* lib.rs).  A filename is a sequence of characters.  A byte buffer is a   *)
(* record: bytes, its leading bytes, each a token (an ASCII byte is its    *)
(* character, any other byte is named by its value); pad, the number of    *)
(* filler bytes "a" that follow them; archive, what the zip crate reads in *)
(* the buffer: None when ZipArchive::new fails, else Some(the names of the *)
(* members in the order of the central directory).                         *)

\* Result: Ok(v) and Err(e)
Ok(v) == [ok |-> TRUE, val |-> v]
Err(e) == [ok |-> FALSE, err |-> e]

\* Option: None and Some(v)
None == <<>>
Some(v) == <<v>>

\* DocumentError (error.rs): a variant without fields, or whose field is the
\* message of a collaborator, which is left out
DocumentError(kind) == [kind |-> kind]
UnsupportedFormat(format) == [kind |-> "UnsupportedFormat", format |-> format]
DocumentTooLarge(size, max_size) ==
    [kind |-> "DocumentTooLarge", size |-> size, max_size |-> max_size]

Filler == "a"

\* bytes above 0x7F; none of them is a UTF-8 continuation byte (0x80..0xBF),
\* so that a buffer with one of them is not valid UTF-8
HighBytes == {"0xD0", "0xCF", "0xE0", "0xFF"}

\* content.len()
content_len(c) == Len(c.bytes) + c.pad

\* &content[0..n], for n <= content.len()
content_prefix(c, n) ==
    [i \in 1..n |-> IF i <= Len(c.bytes) THEN c.bytes[i] ELSE Filler]

\* the whole buffer as far as the rules that read all of it can tell: none of
\* them tells one trailing filler byte from many
content_bytes(c) == c.bytes \o (IF c.pad > 0 THEN <<Filler>> ELSE <<>>)

\* std::str::from_utf8(bytes).is_ok()
is_utf8(bytes) == \A i \in 1..Len(bytes) : bytes[i] \notin HighBytes

\* String::from_utf8_lossy: U+FFFD for every byte that is not UTF-8
from_utf8_lossy(bytes) ==
    [i \in 1..Len(bytes) |-> IF bytes[i] \in HighBytes THEN "U+FFFD" ELSE bytes[i]]

\* str::to_lowercase
to_lowercase(t) ==
    LET lower(c) ==
            CASE c = "A" -> "a" [] c = "B" -> "b" [] c = "C" -> "c" [] c = "D" -> "d"
              [] c = "E" -> "e" [] c = "F" -> "f" [] c = "G" -> "g" [] c = "H" -> "h"
              [] c = "I" -> "i" [] c = "J" -> "j" [] c = "K" -> "k" [] c = "L" -> "l"
              [] c = "M" -> "m" [] c = "N" -> "n" [] c = "O" -> "o" [] c = "P" -> "p"
              [] c = "Q" -> "q" [] c = "R" -> "r" [] c = "S" -> "s" [] c = "T" -> "t"
              [] c = "U" -> "u" [] c = "V" -> "v" [] c = "W" -> "w" [] c = "X" -> "x"
              [] c = "Y" -> "y" [] c = "Z" -> "z" [] OTHER -> c
    IN  [i \in 1..Len(t) |-> lower(t[i])]

\* str::contains(&str)
contains(t, p) == find_str(t, p) # -1

\* str::starts_with(&str)
starts_with(t, p) == Len(p) <= Len(t) /\ SubSeq(t, 1, Len(p)) = p

\* str::trim_start
trim_start(t) == Slice(t, run_length(t, Whitespace), Len(t))

\* Path::file_name on Unix: the last component, unless it is ".."; the
\* components are the pieces between '/', the empty ones and "." left out
file_name(p) ==
    LET comps == SelectSeq(split(p, <<"/">>), LAMBDA x : x # <<>> /\ x # <<DOT>>)
    IN  IF comps = <<>> \/ comps[Len(comps)] = <<DOT, DOT>> THEN None
        ELSE Some(comps[Len(comps)])

\* Path::extension: what follows the last '.' of the file name, if the file
\* name has a '.' that is not its first character
extension(p) ==
    LET name == file_name(p)
    IN  IF name = None THEN None
        ELSE LET f == name[1]
                 i == rfind(f, DOT)
             IN  IF i <= 0 THEN None ELSE Some(Slice(f, i + 1, Len(f)))

\* the match of detect_file_type on the lower-cased extension
extension_table ==
    {
      <<<<"p", "d", "f">>, "pdf">>,
      <<<<"d", "o", "c", "x">>, "docx">>,
      <<<<"d", "o", "c">>, "doc">>,
      <<<<"x", "l", "s", "x">>, "xlsx">>,
      <<<<"x", "l", "s">>, "xls">>,
      <<<<"p", "p", "t", "x">>, "pptx">>,
      <<<<"p", "p", "t">>, "ppt">>,
      <<<<"t", "x", "t">>, "txt">>,
      <<<<"m", "d">>, "markdown">>,
      <<<<"r", "t", "f">>, "rtf">>,
      <<<<"h", "t", "m", "l">>, "html">>,
      <<<<"h", "t", "m">>, "html">>,
      <<<<"x", "m", "l">>, "xml">>,
      <<<<"c", "s", "v">>, "csv">>,
      <<<<"j", "s", "o", "n">>, "json">>,
      <<<<"y", "a", "m", "l">>, "yaml">>,
      <<<<"y", "m", "l">>, "yaml">>,
      <<<<"e", "p", "u", "b">>, "epub">>,
      <<<<"o", "d", "t">>, "odt">>,
      <<<<"o", "d", "s">>, "ods">>,
      <<<<"o", "d", "p">>, "odp">>
    }

\* the member names detect_office_format looks for; corrupt stands for a
\* member that archive.by_index cannot read
Marker ==
    [word |-> "word/document.xml", xl |-> "xl/workbook.xml",
     ppt |-> "ppt/presentation.xml", content |-> "content.xml",
     container |-> "META-INF/container.xml", corrupt |-> "corrupt entry"]

\* the loop of detect_office_format from entry i on: the kind of the first
\* entry that is one of the four markers, an error at an unreadable entry
RECURSIVE office_format_from(_, _)
office_format_from(archive, i) ==
    IF i > Len(archive)
    THEN IF \E j \in 1..Len(archive) : archive[j] = Marker.container
         THEN Ok("epub") ELSE Ok("zip")
    ELSE CASE archive[i] = Marker.corrupt -> Err(DocumentError("ArchiveError"))
           [] archive[i] = Marker.word -> Ok("docx")
           [] archive[i] = Marker.xl -> Ok("xlsx")
           [] archive[i] = Marker.ppt -> Ok("pptx")
           [] archive[i] = Marker.content -> Ok("odt")
           [] OTHER -> office_format_from(archive, i + 1)

detect_office_format(c) ==
    IF c.archive = None THEN Err(DocumentError("ArchiveError"))
    ELSE office_format_from(c.archive[1], 1)

\* the byte strings detect_from_content looks for
Signature ==
    [pdf |-> <<"%", "P", "D", "F">>,
     zip |-> <<"P", "K", "0x03", "0x04">>,
     zip_empty |-> <<"P", "K", "0x05", "0x06">>,
     ole |-> <<"0xD0", "0xCF", "0x11", "0xE0">>,
     rtf |-> <<"{", "\\", "r", "t", "f">>,
     doctype |-> <<"<", "!", "d", "o", "c", "t", "y", "p", "e", SP, "h", "t", "m", "l">>,
     html |-> <<"<", "h", "t", "m", "l">>,
     xml |-> <<"<", "?", "x", "m", "l">>]

\* the number of leading bytes the HTML rule reads
HtmlWindow == 100

\* the match on &content[0..4]: Some(result) when a signature matches
magic_bytes(c) ==
    IF content_len(c) < 4 THEN None
    ELSE LET head == content_prefix(c, 4)
         IN  CASE head = Signature.pdf -> Some(Ok("pdf"))
               [] head \in {Signature.zip, Signature.zip_empty} -> Some(detect_office_format(c))
               [] head = Signature.ole -> Some(Ok("legacy_office"))
               [] OTHER -> None

rtf_header(c) == content_len(c) >= 5 /\ content_prefix(c, 5) = Signature.rtf

\* the HTML rule: the lossy decoding of the first 100 bytes, lower-cased,
\* contains "<!doctype html" or "<html"
html_start(c) ==
    /\ content_len(c) >= 5
    /\ LET start == to_lowercase(from_utf8_lossy(
                        content_prefix(c, Min({HtmlWindow, content_len(c)}))))
       IN  contains(start, Signature.doctype) \/ contains(start, Signature.html)

\* a sniff_text that looks for a leading '<' before it looks for a comma
sniff_text_xml_first(t) ==
    LET first_lines == SubSeq(lines(t), 1, Min({5, Len(lines(t))}))
    IN  IF starts_with(trim_start(t), <<"{">>) \/ starts_with(trim_start(t), <<"[">>)
        THEN "json"
        ELSE IF starts_with(trim_start(t), <<"<">>)
        THEN "xml"
        ELSE IF \E i \in 1..Len(first_lines) : contains(first_lines[i], <<",">>)
        THEN "csv"
        ELSE IF \/ contains(t, <<"-", "-", "-">>)
                \/ \E i \in 1..Len(lines(t)) : contains(lines(t)[i], <<":", SP>>)
        THEN "yaml"
        ELSE "txt"

\* the rules applied to a buffer that is valid UTF-8
sniff_text(t) ==
    LET first_lines == SubSeq(lines(t), 1, Min({5, Len(lines(t))}))
    IN  IF starts_with(trim_start(t), <<"{">>) \/ starts_with(trim_start(t), <<"[">>)
        THEN "json"
        ELSE IF \E i \in 1..Len(first_lines) : contains(first_lines[i], <<",">>)
        THEN "csv"
        ELSE IF \/ starts_with(trim_start(t), Signature.xml)
                \/ starts_with(trim_start(t), <<"<">>)
        THEN "xml"
        ELSE IF \/ contains(t, <<"-", "-", "-">>)
                \/ \E i \in 1..Len(lines(t)) : contains(lines(t)[i], <<":", SP>>)
        THEN "yaml"
        ELSE "txt"

\* a detect_from_content that sniffs the text before it looks at signatures
detect_from_content_sniff_first(c) ==
    IF content_len(c) = 0 THEN Err(DocumentError("EmptyDocument"))
    ELSE IF html_start(c) THEN Ok("html")
    ELSE IF is_utf8(content_bytes(c)) THEN Ok(sniff_text(content_bytes(c)))
    ELSE IF magic_bytes(c) # None THEN magic_bytes(c)[1]
    ELSE IF rtf_header(c) THEN Ok("rtf")
    ELSE Err(UnsupportedFormat("unknown"))

\* a detect_from_content without the test for an empty buffer
detect_from_content_no_empty_test(c) ==
    IF magic_bytes(c) # None THEN magic_bytes(c)[1]
    ELSE IF rtf_header(c) THEN Ok("rtf")
    ELSE IF html_start(c) THEN Ok("html")
    ELSE IF is_utf8(content_bytes(c)) THEN Ok(sniff_text(content_bytes(c)))
    ELSE Err(UnsupportedFormat("unknown"))

\* a detect_from_content that sniffs the lossy decoding of any buffer
detect_from_content_lossy_sniff(c) ==
    IF content_len(c) = 0 THEN Err(DocumentError("EmptyDocument"))
    ELSE IF magic_bytes(c) # None THEN magic_bytes(c)[1]
    ELSE IF rtf_header(c) THEN Ok("rtf")
    ELSE IF html_start(c) THEN Ok("html")
    ELSE Ok(sniff_text(from_utf8_lossy(content_bytes(c))))

detect_from_content(c) ==
    IF content_len(c) = 0 THEN Err(DocumentError("EmptyDocument"))
    ELSE IF magic_bytes(c) # None THEN magic_bytes(c)[1]
    ELSE IF rtf_header(c) THEN Ok("rtf")
    ELSE IF html_start(c) THEN Ok("html")
    ELSE IF is_utf8(content_bytes(c)) THEN Ok(sniff_text(content_bytes(c)))
    ELSE Err(UnsupportedFormat("unknown"))

\* the kind the extension table gives the filename, if any
extension_match(fname) ==
    LET ext == extension(fname)
    IN  IF ext = None THEN None
        ELSE LET ext_lower == to_lowercase(ext[1])
             IN  IF \E row \in extension_table : row[1] = ext_lower
                 THEN Some((CHOOSE row \in extension_table : row[1] = ext_lower)[2])
                 ELSE None

\* a detect_file_type that asks the content first
detect_file_type_content_first(fname, c) ==
    IF detect_from_content(c).ok \/ extension_match(fname) = None
    THEN detect_from_content(c)
    ELSE Ok(extension_match(fname)[1])

detect_file_type(fname, c) ==
    IF extension_match(fname) # None THEN Ok(extension_match(fname)[1])
    ELSE detect_from_content(c)

\* utils::detect_file_type(filename, content)
detect_file_type_call ==
    /\ api = "detect" /\ pc = "call"
    /\ result' = detect_file_type(filename, content)
    /\ pc' = "done"
    /\ UNCHANGED <<api, text, chunk_size, overlap, opts, para, sent, chr,
                   filename, content, lib, file_type, trace, documents, csv>>

\* Inputs of the type detector

MaxFragments == 2
MaxEntries == 2

\* a buffer is made of these pieces
Fragments ==
    {Signature.pdf, Signature.zip, Signature.zip_empty, Signature.ole,
     Signature.rtf, Signature.html,
     <<"<", "H", "T", "M", "L">>, Signature.xml,
     <<"{">>, <<"[">>, <<",">>, <<"<">>, <<"-", "-", "-">>, <<":", SP>>,
     <<NL>>, <<SP>>, <<"a">>, <<"0xFF">>}

\* buffers the zip crate cannot open, and buffers that are ZIP archives, some
\* with a comma in what follows the signature; and text buffers at the edges
\* of the rules: "<html" that ends at byte HtmlWindow or one byte later, and
\* a comma in line 5 or in line 6
DetectContents ==
    LET EntryNames == {Marker.word, Marker.xl, Marker.ppt, Marker.content,
                       Marker.container, "mimetype", Marker.corrupt}
        run(b, n) == [i \in 1..n |-> b]
    IN  [bytes : Concatenations(Fragments, MaxFragments), pad : {0}, archive : {None}]
          \cup
        [bytes : {run("a", HtmlWindow - 5) \o Signature.html,
                  run("a", HtmlWindow - 4) \o Signature.html,
                  run(NL, 4) \o <<",">>, run(NL, 5) \o <<",">>},
         pad : {0}, archive : {None}]
          \cup
        [bytes : {m \o t : m \in {Signature.zip, Signature.zip_empty},
                           t \in {<<>>, <<",">>}},
         pad : {0},
         archive : {Some(a) : a \in TextsUpTo(EntryNames, MaxEntries)}]

\* "x." and an extension of the table, in lower and in upper case; filenames
\* without an extension of the table: "test", "x.bin", ".pdf", "d.pdf/x",
\* "x.", "", ".."; and with one: "x.pdf/", "./x.Md", "x.tar.Json"
DetectFilenames ==
    LET upper(e) == [i \in 1..Len(e) |->
                        CHOOSE u \in UpperCase : to_lowercase(<<u>>) = <<e[i]>>]
    IN  {<<"x", DOT>> \o row[1] : row \in extension_table}
          \cup {<<"x", DOT>> \o upper(row[1]) : row \in extension_table}
          \cup
        {<<"t", "e", "s", "t">>, <<"x", ".", "b", "i", "n">>, <<".", "p", "d", "f">>,
         <<"d", ".", "p", "d", "f", "/", "x">>, <<"x", ".">>, <<>>, <<".", ".">>,
         <<"x", ".", "p", "d", "f", "/">>, <<".", "/", "x", ".", "M", "d">>,
         <<"x", ".", "t", "a", "r", ".", "J", "s", "o", "n">>}

DetectInit ==
    /\ api = "detect" /\ pc = "call"
    /\ filename \in DetectFilenames
    /\ content \in DetectContents
    /\ text = <<>> /\ chunk_size = 0 /\ overlap = 0 /\ opts = None
    /\ para = NoFrame /\ sent = NoFrame /\ chr = NoChars
    /\ result = <<>>
    /\ lib = "fail" /\ file_type = "" /\ trace = <<>> /\ documents = <<>>
    /\ csv = NoCsv

SpecDetect == DetectInit /\ [][detect_file_type_call]_vars

---------------------------------------------------------------------------
(* Claims about the type detector *)

Detected == api = "detect" /\ pc = "done"

\* the buffer starts with one of the signatures of the match on the first
\* four bytes, or with the RTF header
HasSignature(c) ==
    \/ content_len(c) >= 4
       /\ content_prefix(c, 4) \in {Signature.pdf, Signature.zip,
                                     Signature.zip_empty, Signature.ole}
    \/ content_len(c) >= 5 /\ content_prefix(c, 5) = Signature.rtf

\* C11: when the extension of the filename, lower-cased, is in the extension
\* table, detect_file_type returns the kind the table maps it to, whatever the
\* content is.
C11_ExtensionWins ==
    LET ext == extension(filename)
    IN  (Detected /\ ext # None) =>
            LET ext_lower == to_lowercase(ext[1])
            IN  \A row \in extension_table :
                    ext_lower = row[1] => result = Ok(row[2])

\* "x.MD" with a buffer that starts with the PDF signature is markdown
C11_Witness ==
    /\ Detected
    /\ filename = <<"x", ".", "M", "D">>
    /\ IsPrefix(Signature.pdf, content.bytes)
    /\ result = Ok("markdown")

\* C13: without an extension of the table, a buffer that starts with %PDF is
\* pdf, one that starts with D0 CF 11 E0 is legacy_office, one that starts
\* with {\rtf is rtf, and one that starts with a ZIP signature gets what
\* detect_office_format returns, kind or error, also when the bytes are valid
\* UTF-8 that the sniffing rules would match.
C13_MagicBeatsSniffing ==
    (Detected /\ content_len(content) >= 4 /\ extension_match(filename) = None) =>
        LET head == content_prefix(content, 4)
        IN  /\ head = Signature.pdf => result = Ok("pdf")
            /\ head = Signature.ole => result = Ok("legacy_office")
            /\ IsPrefix(Signature.rtf, content.bytes) => result = Ok("rtf")
            /\ head \in {Signature.zip, Signature.zip_empty} =>
                   result = detect_office_format(content)

\* "{\rtf," is valid UTF-8, starts with '{' and has a comma, and is rtf
C13_Witness ==
    /\ Detected /\ extension_match(filename) = None
    /\ is_utf8(content.bytes)
    /\ content.bytes = Signature.rtf \o <<",">>
    /\ result = Ok("rtf")

\* the buffers of C14: not empty, not valid UTF-8, no signature, under a
\* filename without an extension of the table
NotText ==
    /\ Detected
    /\ content_len(content) > 0
    /\ ~is_utf8(content_bytes(content))
    /\ ~HasSignature(content)
    /\ extension_match(filename) = None

\* C14 as stated: a buffer that is not empty, is not valid UTF-8 and has no
\* signature, under a filename without an extension of the table, is rejected
\* with UnsupportedFormat whatever bytes it holds.
C14_NotTextUnsupported ==
    NotText => result = Err(UnsupportedFormat("unknown"))

\* C14 amended: such a buffer is rejected with UnsupportedFormat unless it has
\* at least five bytes and the lossy decoding of its first 100 bytes contains
\* "<html" or "<!doctype html" in any case: then it is html.  No other
\* sniffing rule applies to it.
C14_NotTextUnsupportedOrHtml ==
    NotText =>
        LET start == to_lowercase(from_utf8_lossy(content.bytes))
        IN  IF /\ Len(content.bytes) >= 5
               /\ contains(start, Signature.html) \/ contains(start, Signature.doctype)
            THEN result = Ok("html")
            ELSE result = Err(UnsupportedFormat("unknown"))

\* "<HTML" followed by the byte FF is html
C14_Witness ==
    /\ NotText
    /\ content.bytes = <<"<", "H", "T", "M", "L", "0xFF">>
    /\ result = Ok("html")

\* the buffers of C28: not empty, valid UTF-8, no signature, under a filename
\* without an extension of the table
TextBuffer ==
    /\ Detected
    /\ content_len(content) > 0
    /\ is_utf8(content_bytes(content))
    /\ ~HasSignature(content)
    /\ extension_match(filename) = None

\* C28: such a buffer is always given a kind, the first of: html when it has
\* at least 5 bytes and "<!doctype html" or "<html", in any case, lies within
\* its first 100 bytes; json when its first character that is not whitespace
\* is '{' or '['; csv when a comma is in one of its first 5 lines; xml when
\* its first character that is not whitespace is '<'; yaml when it has "---"
\* or a line with ": "; txt otherwise.
C28_SniffOrder ==
    TextBuffer =>
        LET t == content_bytes(content)
            low == to_lowercase(t)
            at(p, i) == i + Len(p) - 1 <= Len(t) /\ SubSeq(low, i, i + Len(p) - 1) = p
            within(p) == \E i \in 1..Len(t) : at(p, i) /\ i + Len(p) - 1 <= 100
            black == {i \in 1..Len(t) : t[i] \notin {SP, TAB, NL, CR}}
            first == IF black = {} THEN "" ELSE t[Min(black)]
            html == Len(t) >= 5 /\ (within(Signature.doctype) \/ within(Signature.html))
            comma == \E i \in 1..Len(t) :
                        /\ t[i] = ","
                        /\ Cardinality({j \in 1..(i - 1) : t[j] = NL}) < 5
            yaml == \/ \E i \in 1..Len(t) : at(<<"-", "-", "-">>, i)
                    \/ \E i \in 1..Len(t) : at(<<":", SP>>, i)
        IN  result = Ok(IF html THEN "html"
                        ELSE IF first \in {"{", "["} THEN "json"
                        ELSE IF comma THEN "csv"
                        ELSE IF first = "<" THEN "xml"
                        ELSE IF yaml THEN "yaml"
                        ELSE "txt")

\* "<," starts with '<' and has a comma in its first line, and is csv
C28_Witness ==
    /\ TextBuffer
    /\ content.bytes = <<"<", ",">>
    /\ result = Ok("csv")

\* the names of the members of the archive
EntrySet(c) == {c.archive[1][i] : i \in 1..Len(c.archive[1])}

\* the archives of C15: a ZIP signature, a readable archive with readable
\* members, a filename without an extension of the table
ReadableArchive ==
    /\ Detected /\ extension_match(filename) = None
    /\ \/ IsPrefix(Signature.zip, content.bytes)
       \/ IsPrefix(Signature.zip_empty, content.bytes)
    /\ content.archive # None
    /\ Marker.corrupt \notin EntrySet(content)

\* C15: an archive with word/document.xml is docx, with xl/workbook.xml xlsx,
\* with ppt/presentation.xml pptx, whatever its other entries and their order
\* (stated for archives with one of the three only); content.xml gives odt
\* only when none of the three is there; META-INF/container.xml with none of
\* the four gives epub; none of the five gives zip.
C15_ZipInterior ==
    ReadableArchive =>
        LET E == EntrySet(content)
            specific == E \cap {Marker.word, Marker.xl, Marker.ppt}
        IN  /\ specific = {Marker.word} => result = Ok("docx")
            /\ specific = {Marker.xl} => result = Ok("xlsx")
            /\ specific = {Marker.ppt} => result = Ok("pptx")
            /\ result = Ok("odt") => specific = {} /\ Marker.content \in E
            /\ (specific = {} /\ Marker.content \in E) => result = Ok("odt")
            /\ (specific = {} /\ Marker.content \notin E /\ Marker.container \in E) =>
                   result = Ok("epub")
            /\ (specific = {} /\ E \cap {Marker.content, Marker.container} = {}) =>
                   result = Ok("zip")

---------------------------------------------------------------------------
(* Extractors (parsers/*.rs).  What a parsing library makes of a buffer is *)
(* not in its leading bytes: it is the input lib of the call, "fail" when  *)
(* the library returns an error, "blank" when it returns a document whose  *)
(* text is empty or whitespace, "text" when it returns a document with     *)
(* text.  An archive that the zip crate cannot open fails in every library *)
(* that reads archives.                                                    *)

DefaultParseOptions ==
    [enable_ocr |-> FALSE, extract_tables |-> TRUE, extract_images |-> FALSE,
     language |-> None, max_pages |-> None, extract_metadata |-> TRUE,
     preserve_formatting |-> FALSE]

\* the text an extractor makes of a document that has text
ExtractedText == <<"T">>

\* utils::validate_file_size with >= for >
validate_file_size_inclusive(c, max_size) ==
    IF content_len(c) >= max_size
    THEN Err(DocumentTooLarge(content_len(c), max_size))
    ELSE Ok(<<>>)

validate_file_size(c, max_size) ==
    IF content_len(c) > max_size
    THEN Err(DocumentTooLarge(content_len(c), max_size))
    ELSE Ok(<<>>)

\* the library reads an archive: it fails when the zip crate cannot open the
\* buffer or cannot read a member
reads_archive(c, l) ==
    IF c.archive = None THEN "fail"
    ELSE IF \E i \in 1..Len(c.archive[1]) : c.archive[1][i] = Marker.corrupt
    THEN "fail" ELSE l

\* the library reads a document: an empty buffer is none
reads_document(c, l) == IF content_len(c) = 0 THEN "fail" ELSE l

\* the text of what a library read, or the error of the extractor
text_or(read, kind) ==
    IF read = "text" THEN Ok(ExtractedText) ELSE Err(DocumentError(kind))

parse_rtf(c, o, l) ==
    IF ~starts_with(from_utf8_lossy(content_bytes(c)), Signature.rtf)
    THEN Err(DocumentError("RtfError"))
    ELSE text_or(l, "RtfError")

\* serde_json: a valid document without a string value has no text values
parse_json(c, o, l) ==
    IF reads_document(c, l) = "fail" THEN Err(DocumentError("JsonError"))
    ELSE IF o.preserve_formatting \/ l = "text" THEN Ok(ExtractedText)
    ELSE Ok(<<>>)

\* format_xml keeps the lines that are not blank and parses nothing;
\* extract_xml_text fails without a document and without text
parse_xml(c, o, l) ==
    IF o.preserve_formatting
    THEN IF trim(from_utf8_lossy(content_bytes(c))) = <<>>
         THEN Ok(<<>>) ELSE Ok(ExtractedText)
    ELSE text_or(reads_document(c, l), "XmlError")

\* a chapter without text makes parse_html fail, and the error is passed on
parse_epub(c, o, l) ==
    CASE reads_archive(c, l) = "text" -> Ok(ExtractedText)
      [] reads_archive(c, l) = "blank" -> Err(DocumentError("HtmlError"))
      [] OTHER -> Err(DocumentError("ArchiveError"))

\* extract_odf_text: content.xml is read by name
extract_odf_text(c, doc_type, o, l) ==
    IF c.archive = None \/ Marker.content \notin {c.archive[1][i] : i \in 1..Len(c.archive[1])}
    THEN Err(DocumentError("ArchiveError"))
    ELSE CASE l = "text" -> Ok(ExtractedText)
           [] l = "blank" -> Err(DocumentError("ArchiveError"))
           [] OTHER -> Err(DocumentError("XmlError"))

\* bytes that are control characters, besides "\n", "\t" and "\r"
ControlBytes == {"0x03", "0x04", "0x05", "0x06", "0x11"}

\* decode_text: UTF-8 if the buffer is valid UTF-8, else the first of the
\* encodings tried that decodes without error, which is windows-1252, where
\* every byte is a character
decode_text(bytes) ==
    IF is_utf8(bytes) THEN bytes
    ELSE [i \in 1..Len(bytes) |->
            CASE bytes[i] = "0xD0" -> "U+00D0" [] bytes[i] = "0xCF" -> "U+00CF"
              [] bytes[i] = "0xE0" -> "U+00E0" [] bytes[i] = "0xFF" -> "U+00FF"
              [] OTHER -> bytes[i]]

\* normalize_whitespace of text.rs: a run of whitespace becomes "\n" if it
\* starts with "\n", else a space
RECURSIVE text_normalize_whitespace(_)
text_normalize_whitespace(t) ==
    IF t = <<>> THEN <<>>
    ELSE IF is_whitespace(Head(t))
    THEN <<IF Head(t) = NL THEN NL ELSE SP>>
             \o text_normalize_whitespace(Slice(t, run_length(t, Whitespace), Len(t)))
    ELSE <<Head(t)>> \o text_normalize_whitespace(Tail(t))

process_text(t, o) ==
    LET kept == SelectSeq(t, LAMBDA ch :
                    ~(is_control(ch) \/ ch \in ControlBytes) \/ ch = NL \/ ch = TAB)
        processed == replace(replace(kept, <<CR, NL>>, <<NL>>), <<CR>>, <<NL>>)
    IN  IF ~o.preserve_formatting THEN text_normalize_whitespace(processed)
        ELSE processed

\* str::trim_matches(char)
trim_matches(t, ch) ==
    LET keep == {i \in 1..Len(t) : t[i] # ch}
    IN  IF keep = {} THEN <<>> ELSE SubSeq(t, Min(keep), Max(keep))

\* the value extract_yaml_values takes from one line, if any
yaml_line_value(line) ==
    LET trimmed == trim(line)
        colon_pos == find(trimmed, ":")
    IN  IF trimmed = <<>> \/ Head(trimmed) = "#" THEN None
        ELSE IF colon_pos # -1
        THEN LET value == trim(Slice(trimmed, colon_pos + 1, Len(trimmed)))
                 clean_value == trim_matches(trim_matches(value, "\""), "'")
             IN  IF /\ value # <<>> /\ value # <<"n", "u", "l", "l">>
                    /\ value # <<"~">> /\ clean_value # <<>>
                 THEN Some(clean_value) ELSE None
        ELSE IF Head(trimmed) = "-" /\ trim(Tail(trimmed)) # <<>>
        THEN Some(trim(Tail(trimmed)))
        ELSE None

RECURSIVE yaml_values(_)
yaml_values(ls) ==
    IF ls = <<>> THEN <<>>
    ELSE yaml_line_value(Head(ls)) \o yaml_values(Tail(ls))

extract_yaml_values(t) == join(yaml_values(lines(t)), <<NL>>)

parse_txt(c, o, l) == Ok(process_text(decode_text(content_bytes(c)), o))

parse_yaml(c, o, l) ==
    IF o.preserve_formatting
    THEN Ok(process_text(decode_text(content_bytes(c)), o))
    ELSE Ok(extract_yaml_values(decode_text(content_bytes(c))))

\* the loop of markdown_to_text over lines that are neither in a code block
\* nor table rows and have no Markdown markup (no heading, quote, list,
\* emphasis, code or link characters), as are the lines of the buffers
\* explored: process_markdown_line gives the trimmed line back as it is
RECURSIVE markdown_lines(_)
markdown_lines(ls) ==
    IF ls = <<>> THEN <<>>
    ELSE (IF trim(Head(ls)) # <<>> THEN trim(Head(ls)) \o <<NL>> ELSE <<>>)
             \o markdown_lines(Tail(ls))

\* clean_text_output: the trimmed lines that are not empty
clean_text_output(t) == join(map_trim_nonempty(lines(t)), <<NL>>)

markdown_to_text(md) == clean_text_output(markdown_lines(lines(md)))

\* with preserve_formatting, clean_markdown: the lines with trim_end applied
parse_markdown(c, o, l) ==
    LET md == from_utf8_lossy(content_bytes(c))
        trim_end(t) ==
            LET keep == {i \in 1..Len(t) : ~is_whitespace(t[i])}
            IN  IF keep = {} THEN <<>> ELSE SubSeq(t, 1, Max(keep))
    IN  IF o.preserve_formatting
        THEN Ok(join([i \in 1..Len(lines(md)) |-> trim_end(lines(md)[i])], <<NL>>))
        ELSE Ok(markdown_to_text(md))

---------------------------------------------------------------------------
(* Dispatcher (parsers/mod.rs) *)

get_supported_formats ==
    <<"pdf", "docx", "doc", "xlsx", "xls", "pptx", "ppt", "txt", "markdown",
      "html", "rtf", "csv", "json", "xml", "yaml", "epub", "odt", "ods", "odp">>

\* the match of parse_document on the kind, with "zip" sent to parse_epub
extractor_of_zip_as_epub(kind) ==
    CASE kind = "pdf" -> Some("pdf::parse_pdf")
      [] kind = "docx" -> Some("docx::parse_docx")
      [] kind = "doc" -> Some("docx::parse_doc")
      [] kind = "xlsx" -> Some("excel::parse_xlsx")
      [] kind = "xls" -> Some("excel::parse_xls")
      [] kind = "pptx" -> Some("powerpoint::parse_pptx")
      [] kind = "ppt" -> Some("powerpoint::parse_ppt")
      [] kind = "txt" -> Some("text::parse_txt")
      [] kind = "markdown" -> Some("markdown::parse_markdown")
      [] kind = "html" -> Some("html::parse_html")
      [] kind = "rtf" -> Some("rtf::parse_rtf")
      [] kind = "csv" -> Some("csv::parse_csv")
      [] kind = "json" -> Some("json::parse_json")
      [] kind = "xml" -> Some("xml::parse_xml")
      [] kind = "yaml" -> Some("text::parse_yaml")
      [] kind \in {"epub", "zip"} -> Some("epub::parse_epub")
      [] kind = "odt" -> Some("odt::parse_odt")
      [] kind = "ods" -> Some("odt::parse_ods")
      [] kind = "odp" -> Some("odt::parse_odp")
      [] OTHER -> None

\* the match of parse_document on the kind: the extractor of the arm, None
\* for the arm `_`
extractor_of(kind) ==
    CASE kind = "pdf" -> Some("pdf::parse_pdf")
      [] kind = "docx" -> Some("docx::parse_docx")
      [] kind = "doc" -> Some("docx::parse_doc")
      [] kind = "xlsx" -> Some("excel::parse_xlsx")
      [] kind = "xls" -> Some("excel::parse_xls")
      [] kind = "pptx" -> Some("powerpoint::parse_pptx")
      [] kind = "ppt" -> Some("powerpoint::parse_ppt")
      [] kind = "txt" -> Some("text::parse_txt")
      [] kind = "markdown" -> Some("markdown::parse_markdown")
      [] kind = "html" -> Some("html::parse_html")
      [] kind = "rtf" -> Some("rtf::parse_rtf")
      [] kind = "csv" -> Some("csv::parse_csv")
      [] kind = "json" -> Some("json::parse_json")
      [] kind = "xml" -> Some("xml::parse_xml")
      [] kind = "yaml" -> Some("text::parse_yaml")
      [] kind = "epub" -> Some("epub::parse_epub")
      [] kind = "odt" -> Some("odt::parse_odt")
      [] kind = "ods" -> Some("odt::parse_ods")
      [] kind = "odp" -> Some("odt::parse_odp")
      [] OTHER -> None

\* the call of an extractor.  The extractors that hand the buffer to a
\* library return its text, or their error when the library fails or finds
\* no text; parse_doc and parse_ppt return their error for every buffer
call_extractor(extractor, c, o, l) ==
    CASE extractor = "pdf::parse_pdf" -> text_or(reads_document(c, l), "PdfError")
      [] extractor = "docx::parse_docx" -> text_or(reads_archive(c, l), "DocxError")
      [] extractor = "docx::parse_doc" -> Err(DocumentError("DocxError"))
      [] extractor = "excel::parse_xlsx" -> text_or(reads_archive(c, l), "ExcelError")
      [] extractor = "excel::parse_xls" -> text_or(reads_document(c, l), "ExcelError")
      [] extractor = "powerpoint::parse_pptx" ->
            text_or(reads_archive(c, l), "PowerPointError")
      [] extractor = "powerpoint::parse_ppt" -> Err(DocumentError("PowerPointError"))
      [] extractor = "text::parse_txt" -> parse_txt(c, o, l)
      [] extractor = "markdown::parse_markdown" -> parse_markdown(c, o, l)
      [] extractor = "html::parse_html" -> text_or(reads_document(c, l), "HtmlError")
      [] extractor = "rtf::parse_rtf" -> parse_rtf(c, o, l)
      [] extractor = "csv::parse_csv" -> text_or(reads_document(c, l), "CsvError")
      [] extractor = "json::parse_json" -> parse_json(c, o, l)
      [] extractor = "xml::parse_xml" -> parse_xml(c, o, l)
      [] extractor = "text::parse_yaml" -> parse_yaml(c, o, l)
      [] extractor = "epub::parse_epub" -> parse_epub(c, o, l)
      [] extractor = "odt::parse_odt" -> extract_odf_text(c, "odt", o, l)
      [] extractor = "odt::parse_ods" -> extract_odf_text(c, "ods", o, l)
      [] extractor = "odt::parse_odp" -> extract_odf_text(c, "odp", o, l)

\* options.unwrap_or(&ParseOptions::default())
unwrap_or_default(options) ==
    IF options = None THEN DefaultParseOptions ELSE options[1]

\* the size limit of parse_document
max_file_size == 100 * 1024 * 1024

\* parse_document, the steps of one call: pc is "call", then "detect", then
\* "dispatch", then "done"

parse_document_validate ==
    /\ api = "parse" /\ pc = "call"
    /\ trace' = Append(trace, "validate_file_size")
    /\ \E validated \in {validate_file_size(content, max_file_size)} :
          IF validated.ok
          THEN pc' = "detect" /\ UNCHANGED result
          ELSE pc' = "done" /\ result' = validated
    /\ UNCHANGED <<api, text, chunk_size, overlap, opts, para, sent, chr,
                   filename, content, lib, file_type, documents, csv>>

parse_document_detect ==
    /\ api = "parse" /\ pc = "detect"
    /\ trace' = Append(trace, "detect_file_type")
    /\ \E detected \in {detect_file_type(filename, content)} :
          IF detected.ok
          THEN /\ pc' = "dispatch"
               /\ file_type' = detected.val
               /\ UNCHANGED result
          ELSE /\ pc' = "done"
               /\ result' = detected
               /\ UNCHANGED file_type
    /\ UNCHANGED <<api, text, chunk_size, overlap, opts, para, sent, chr,
                   filename, content, lib, documents, csv>>

parse_document_dispatch ==
    /\ api = "parse" /\ pc = "dispatch"
    /\ IF extractor_of(file_type) # None
       THEN /\ trace' = Append(trace, extractor_of(file_type)[1])
            /\ result' = call_extractor(extractor_of(file_type)[1], content,
                                        unwrap_or_default(opts), lib)
       ELSE /\ result' = Err(UnsupportedFormat(file_type))
            /\ UNCHANGED trace
    /\ pc' = "done"
    /\ UNCHANGED <<api, text, chunk_size, overlap, opts, para, sent, chr,
                   filename, content, lib, file_type, documents, csv>>

\* parse_document as a function of its arguments
parse_document(c, fname, options, l) ==
    LET dispatch(detected) ==
            IF ~detected.ok THEN detected
            ELSE IF extractor_of(detected.val) = None
            THEN Err(UnsupportedFormat(detected.val))
            ELSE call_extractor(extractor_of(detected.val)[1], c,
                                unwrap_or_default(options), l)
        detect(validated) ==
            IF ~validated.ok THEN validated
            ELSE dispatch(detect_file_type(fname, c))
    IN  detect(validate_file_size(c, max_file_size))

\* Metadata: file_type, file_size, and the names of the other keys

extract_pdf_metadata(c, l) ==
    Ok([file_type |-> "pdf", file_size |-> content_len(c),
        keys |-> IF reads_document(c, l) = "fail" THEN {}
                 ELSE {"estimated_pages", "character_count", "word_count"}])

extract_docx_metadata(c, l) ==
    IF reads_archive(c, l) = "fail" THEN Err(DocumentError("DocxError"))
    ELSE Ok([file_type |-> "docx", file_size |-> content_len(c),
             keys |-> {"character_count", "word_count", "paragraph_count"}])

extract_excel_metadata(c, l) ==
    IF reads_archive(c, l) = "fail" THEN Err(DocumentError("ExcelError"))
    ELSE Ok([file_type |-> "xlsx", file_size |-> content_len(c),
             keys |-> {"sheet_count", "sheet_names", "total_cells", "total_rows"}])

\* extract_pptx_metadata reads the member names only
extract_pptx_metadata(c, l) ==
    IF reads_archive(c, "text") = "fail" THEN Err(DocumentError("PowerPointError"))
    ELSE Ok([file_type |-> "pptx", file_size |-> content_len(c),
             keys |-> {"slide_count", "has_notes"}])

extract_metadata(c, fname, l) ==
    LET metadata_of(detected) ==
            IF ~detected.ok THEN detected
            ELSE CASE detected.val = "pdf" -> extract_pdf_metadata(c, l)
                   [] detected.val = "docx" -> extract_docx_metadata(c, l)
                   [] detected.val = "xlsx" -> extract_excel_metadata(c, l)
                   [] detected.val = "pptx" -> extract_pptx_metadata(c, l)
                   [] OTHER -> Ok([file_type |-> detected.val,
                                   file_size |-> content_len(c), keys |-> {}])
    IN  metadata_of(detect_file_type(fname, c))

\* parsers::extract_metadata(content, filename)
extract_metadata_call ==
    /\ api = "metadata" /\ pc = "call"
    /\ result' = extract_metadata(content, filename, lib)
    /\ pc' = "done"
    /\ UNCHANGED <<api, text, chunk_size, overlap, opts, para, sent, chr,
                   filename, content, lib, file_type, trace, documents, csv>>

\* Inputs of parse_document and extract_metadata

\* buffers the zip crate cannot open, a ZIP signature with and without an
\* archive behind it, and buffers of exactly the size limit and of one byte
\* more
ParseContents ==
    LET ParseFragments == {Signature.pdf, Signature.ole, Signature.rtf, <<"{">>,
                           <<":", SP>>, <<NL>>, <<SP>>, <<"a">>, <<"0xFF">>}
        ParseEntryNames == {Marker.word, Marker.ppt, Marker.content,
                            Marker.container, Marker.corrupt}
    IN  [bytes : Concatenations(ParseFragments, MaxFragments), pad : {0},
         archive : {None}]
          \cup
        [bytes : {Signature.zip}, pad : {0},
         archive : {None} \cup {Some(a) : a \in TextsUpTo(ParseEntryNames, MaxEntries)}]
          \cup
        {[bytes |-> b, pad |-> n - Len(b), archive |-> None] :
            b \in {<<>>, Signature.pdf, <<"a">>},
            n \in {max_file_size, max_file_size + 1}}

\* "test", "x.bin" and one filename for every extension of the table
ParseFilenames ==
    {<<"t", "e", "s", "t">>, <<"x", ".", "b", "i", "n">>}
        \cup {<<"x", DOT>> \o row[1] : row \in extension_table}

ParseOptionsArgs ==
    {None,
     Some([DefaultParseOptions EXCEPT !.preserve_formatting = TRUE]),
     Some([DefaultParseOptions EXCEPT !.enable_ocr = TRUE])}

ParseInit ==
    /\ pc = "call"
    /\ \/ api = "parse" /\ opts \in ParseOptionsArgs
       \/ api = "metadata" /\ opts = None
    /\ filename \in ParseFilenames
    /\ content \in ParseContents
    /\ lib \in {"fail", "blank", "text"}
    /\ file_type = "" /\ trace = <<>> /\ documents = <<>> /\ csv = NoCsv
    /\ text = <<>> /\ chunk_size = 0 /\ overlap = 0
    /\ para = NoFrame /\ sent = NoFrame /\ chr = NoChars
    /\ result = <<>>

ParseNext ==
    \/ parse_document_validate
    \/ parse_document_detect
    \/ parse_document_dispatch
    \/ extract_metadata_call

SpecParse == ParseInit /\ [][ParseNext]_vars

---------------------------------------------------------------------------
(* Batch entry point (lib.rs) *)

\* parse_options(dict) of lib.rs; of the keys, the model has enable_ocr,
\* whose value is "absent", a bool ("True", "False") or something else
parse_options(dict) ==
    IF dict.enable_ocr \notin {"absent", "True", "False"}
    THEN Err([kind |-> "PyTypeError"])
    ELSE Ok([DefaultParseOptions EXCEPT !.enable_ocr = (dict.enable_ocr = "True")])

\* options.map(|d| parse_options(d)).transpose()
transpose_options(options) ==
    IF options = None THEN Ok(None)
    ELSE IF parse_options(options[1]).ok THEN Ok(Some(parse_options(options[1]).val))
    ELSE parse_options(options[1])

\* the closure of the map: the text, or the error in a PyRuntimeError
document_result(doc, options) ==
    LET map_err(r) ==
            IF r.ok THEN Ok(r.val)
            ELSE Err([kind |-> "PyRuntimeError",
                      message |-> "Document parsing failed: ", error |-> r.err])
    IN  map_err(parse_document(doc.content, doc.filename, options, doc.lib))

\* a map that stops at the first item that fails
RECURSIVE map_documents_until_failure(_, _)
map_documents_until_failure(docs, options) ==
    IF docs = <<>> THEN <<>>
    ELSE <<document_result(Head(docs), options)>>
             \o (IF document_result(Head(docs), options).ok
                 THEN map_documents_until_failure(Tail(docs), options) ELSE <<>>)

\* documents.into_iter().map(..).collect()
RECURSIVE map_documents(_, _)
map_documents(docs, options) ==
    IF docs = <<>> THEN <<>>
    ELSE <<document_result(Head(docs), options)>> \o map_documents(Tail(docs), options)

\* process_batch_documents(documents, options)
process_batch_documents_call ==
    /\ api = "batch" /\ pc = "call"
    /\ \E parse_opts \in {transpose_options(opts)} :
          IF parse_opts.ok
          THEN result' = Ok(map_documents(documents, parse_opts.val))
          ELSE result' = parse_opts
    /\ pc' = "done"
    /\ UNCHANGED <<api, text, chunk_size, overlap, opts, para, sent, chr,
                   filename, content, lib, file_type, trace, documents, csv>>

MaxBatch == 3

\* the items of a batch: a text file, an empty buffer without extension, a
\* .docx that is no archive, a PDF that has text, an archive that is no
\* document, a buffer over the size limit
BatchItems ==
    {[content |-> [bytes |-> <<"a">>, pad |-> 0, archive |-> None],
      filename |-> <<"x", ".", "t", "x", "t">>, lib |-> "text"],
     [content |-> [bytes |-> <<>>, pad |-> 0, archive |-> None],
      filename |-> <<"t", "e", "s", "t">>, lib |-> "fail"],
     [content |-> [bytes |-> <<"a">>, pad |-> 0, archive |-> None],
      filename |-> <<"x", ".", "d", "o", "c", "x">>, lib |-> "fail"],
     [content |-> [bytes |-> Signature.pdf, pad |-> 0, archive |-> None],
      filename |-> <<"t", "e", "s", "t">>, lib |-> "text"],
     [content |-> [bytes |-> Signature.zip, pad |-> 0,
                   archive |-> Some(<<"mimetype">>)],
      filename |-> <<"t", "e", "s", "t">>, lib |-> "text"],
     [content |-> [bytes |-> <<>>, pad |-> max_file_size + 1, archive |-> None],
      filename |-> <<"x", ".", "t", "x", "t">>, lib |-> "text"]}

BatchInit ==
    /\ api = "batch" /\ pc = "call"
    /\ documents \in TextsUpTo(BatchItems, MaxBatch)
    /\ opts \in {None} \cup {Some([enable_ocr |-> v]) :
                                v \in {"absent", "True", "False", "'yes'"}}
    /\ filename = <<>> /\ content = [bytes |-> <<>>, pad |-> 0, archive |-> None]
    /\ lib = "fail" /\ file_type = "" /\ trace = <<>> /\ csv = NoCsv
    /\ text = <<>> /\ chunk_size = 0 /\ overlap = 0
    /\ para = NoFrame /\ sent = NoFrame /\ chr = NoChars
    /\ result = <<>>

SpecBatch == BatchInit /\ [][process_batch_documents_call]_vars

---------------------------------------------------------------------------
(* Claims about the dispatcher *)

Parsed == api = "parse" /\ pc = "done"
MetadataExtracted == api = "metadata" /\ pc = "done"

ExtractorNames == {extractor_of(get_supported_formats[i])[1] : i \in 1..19}

\* the extractors invoked so far
Invoked == SelectSeq(trace, LAMBDA step : step \in ExtractorNames)

\* C12: for a buffer of length zero, parse_document and extract_metadata
\* fail with DocumentError("EmptyDocument") exactly when the filename has no extension of the
\* extension table; parse_document of an empty buffer named "test" fails with
\* DocumentError("EmptyDocument").
C12_EmptyDocument ==
    ((Parsed \/ MetadataExtracted) /\ content_len(content) = 0) =>
        /\ result = Err(DocumentError("EmptyDocument")) <=> extension_match(filename) = None
        /\ filename = <<"t", "e", "s", "t">> => result = Err(DocumentError("EmptyDocument"))

\* the scenario: parse_document(b"", "test", ..) has run type detection and
\* returned DocumentError("EmptyDocument")
C12_Witness ==
    /\ Parsed
    /\ filename = <<"t", "e", "s", "t">>
    /\ content_len(content) = 0
    /\ trace = <<"validate_file_size", "detect_file_type">>
    /\ result = Err(DocumentError("EmptyDocument"))

\* C16: parse_document validates the size, then detects the type, then calls
\* the extractor; it stops at the first step that fails and returns its error
\* as it is; a buffer of more than 104857600 bytes gives DocumentTooLarge with
\* its size and max_size 104857600 whatever its name and bytes; a buffer of
\* exactly 104857600 bytes passes the size validation; at most one extractor
\* is invoked, at most once.
C16_DispatchOrder ==
    api = "parse" =>
        /\ \/ IsPrefix(trace, <<"validate_file_size", "detect_file_type">>)
           \/ /\ Len(trace) = 3
              /\ SubSeq(trace, 1, 2) = <<"validate_file_size", "detect_file_type">>
              /\ trace[3] \in ExtractorNames
        /\ Len(Invoked) <= 1
        /\ (pc = "done" /\ content_len(content) > 104857600) =>
               /\ result = Err(DocumentTooLarge(content_len(content), 104857600))
               /\ trace = <<"validate_file_size">>
        /\ (pc = "done" /\ content_len(content) <= 104857600) =>
               /\ Len(trace) >= 2
               /\ Len(trace) = 2 =>
                      \/ result = detect_file_type(filename, content)
                      \/ /\ detect_file_type(filename, content).ok
                         /\ result = Err(UnsupportedFormat(file_type))
               /\ Len(trace) = 3 =>
                      result = call_extractor(trace[3], content,
                                              unwrap_or_default(opts), lib)

\* a buffer of exactly 104857600 bytes that starts with %PDF, named "x.pdf",
\* has passed the size validation and reached the extractor
C16_Witness ==
    /\ Parsed
    /\ content_len(content) = 104857600
    /\ IsPrefix(Signature.pdf, content.bytes)
    /\ trace = <<"validate_file_size", "detect_file_type", "pdf::parse_pdf">>

\* C17: a detected kind without extractor (legacy_office, zip) gives
\* UnsupportedFormat with that kind and no extractor is invoked; each of the
\* 19 kinds of get_supported_formats is dispatched to exactly one extractor
\* and the dispatcher does not reject it with UnsupportedFormat.
C17_Dispatch ==
    (Parsed /\ Len(trace) >= 2 /\ detect_file_type(filename, content).ok) =>
        LET kind == detect_file_type(filename, content).val
        IN  /\ kind \in {"legacy_office", "zip"} =>
                /\ result = Err(UnsupportedFormat(kind))
                /\ Invoked = <<>>
            /\ (\E i \in 1..19 : get_supported_formats[i] = kind) =>
                /\ Len(Invoked) = 1
                /\ result = call_extractor(Invoked[1], content,
                                           unwrap_or_default(opts), lib)
                /\ result # Err(UnsupportedFormat(kind))

\* an archive that is no document, without extension: zip, UnsupportedFormat
C17_Witness ==
    /\ Parsed
    /\ file_type = "zip"
    /\ trace = <<"validate_file_size", "detect_file_type">>
    /\ result = Err(UnsupportedFormat("zip"))

\* C19: parse_document returns a text that is not empty or a failure, also
\* for empty and whitespace-only buffers named .txt, .md or .yaml.
C19_NoEmptySuccess ==
    (Parsed /\ result.ok) => result.val # <<>>

\* C20: whenever type detection succeeds, extract_metadata succeeds and the
\* map has file_type and file_size, also for pdf, docx, xlsx and pptx with
\* malformed bytes behind the extension and for legacy_office and zip.
C20_MetadataSucceeds ==
    (MetadataExtracted /\ detect_file_type(filename, content).ok) =>
        /\ result.ok
        /\ result.val.file_type = detect_file_type(filename, content).val
        /\ result.val.file_size = content_len(content)

---------------------------------------------------------------------------
(* Claims about the batch entry point *)

BatchDone == api = "batch" /\ pc = "done"

\* C18: process_batch_documents returns one result per item, in the order of
\* the items; result i is what parse_document returns for item i alone with
\* the same options; a failing item changes no other result, and the call does
\* not fail because an item failed.
C18_BatchIsolation ==
    BatchDone =>
        /\ result.ok <=> transpose_options(opts).ok
        /\ result.ok =>
            /\ Len(result.val) = Len(documents)
            /\ \A i \in 1..Len(documents) :
                   LET alone == parse_document(documents[i].content,
                                               documents[i].filename,
                                               transpose_options(opts).val,
                                               documents[i].lib)
                   IN  IF alone.ok THEN result.val[i] = Ok(alone.val)
                       ELSE /\ ~result.val[i].ok
                            /\ result.val[i].err.error = alone.err

\* a batch whose first item fails with DocumentError("EmptyDocument") and whose second item is
\* a text file: the second result is its text
C18_Witness ==
    /\ BatchDone /\ result.ok
    /\ Len(documents) >= 2
    /\ ~result.val[1].ok /\ result.val[1].err.error = DocumentError("EmptyDocument")
    /\ result.val[2] = Ok(<<"a">>)

---------------------------------------------------------------------------
(* More claims about chunk_text, checked under SpecChunk *)

\* the text has characters of one byte only
SingleByte(t) ==
    \A i \in 1..Len(t) : t[i] \notin ContinuationBytes \cup {"0xE4", "0xE5"}

\* C25: chunk_text returns normally, without a panic, for every valid UTF-8
\* text, texts with characters of several bytes included, every
\* chunk_size >= 1 and every overlap: every offset at which the text is
\* sliced is a character boundary and the whitespace-skip lookup finds a
\* character.  pc = "panic" is the call that panicked.
C25_NeverPanics ==
    (api = "chunk" /\ chunk_size >= 1) => pc # "panic"

\* C26: in chunk_by_characters with overlap = 0 on a text of one-byte
\* characters, every iteration moves the window start forward (so there are
\* at most len(text) iterations and the loop ends), pushes no empty chunk, and
\* what it pushes is the trimmed slice of one window that starts at the
\* window start and is at most chunk_size long.
C26_WindowAdvances ==
    [][(overlap = 0 /\ SingleByte(chr.text) /\ chunk_by_characters_step) =>
          /\ pc' = "chars"
          /\ chr'.start > chr.start
          /\ chr'.start <= Len(chr.text)
          /\ \/ chr'.chunks = chr.chunks
             \/ \E e \in (chr.start + 1)..Min({chr.start + chunk_size, Len(chr.text)}) :
                    /\ trim(Slice(chr.text, chr.start, e)) # <<>>
                    /\ chr'.chunks =
                           Append(chr.chunks, trim(Slice(chr.text, chr.start, e)))
          /\ chr'.iterations = chr.iterations + 1
          /\ chr'.iterations <= Len(chr.text)]_vars

\* the loop has pushed two chunks with overlap = 0, the second from a window
\* that does not start at 0
C26_Witness ==
    /\ api = "chunk" /\ pc = "chars" /\ overlap = 0 /\ SingleByte(chr.text)
    /\ chr.start > 0 /\ Len(chr.chunks) >= 2

\* C27: with overlap = 0 and min_chunk_size = 0, for a text longer than
\* chunk_size and in every mode, the chunks returned, concatenated in order
\* and with all whitespace deleted, are the text with all whitespace deleted.
C27_NothingLost ==
    (Returned /\ overlap = 0 /\ opts.min_chunk_size = 0 /\ Len(text) > chunk_size) =>
        Without(join(result, <<>>), Whitespace) = Without(text, Whitespace)

\* chunk_by_sentences has just been entered from chunk_text: its frame holds
\* the sentences of the whole text
EnteredSentences ==
    /\ api = "chunk" /\ pc = "sent" /\ sent.ret = "top"
    /\ sent.chunks = <<>> /\ sent.current_chunk = <<>>

\* C29: split_into_sentences splits at every whitespace run that follows
\* '.', '!' or '?' and precedes an upper-case letter and keeps the
\* punctuation with its sentence; the text of test_split_into_sentences
\* gives 3 sentences.
C29_RegexSplit ==
    EnteredSentences =>
        /\ sent.units = map_trim_nonempty(split_on_sentence_regex(text))
        /\ text = TestSentencesText => Len(sent.units) = 3

---------------------------------------------------------------------------
(* Language detector: detect_language and detect_latin_language            *)
(* (text_processor.rs).  A text is a sequence of characters; a character   *)
(* outside ASCII is named by its code point.                               *)

\* the scalar value of a character; the characters explored below U+0400
\* (ASCII, U+00E0, U+00EA, U+03FF) are in no range of detect_language and
\* count as 0
code_point(c) ==
    CASE c = "U+03FF" -> 1023    [] c = "U+0400" -> 1024    [] c = "U+0434" -> 1076
      [] c = "U+04FF" -> 1279    [] c = "U+0500" -> 1280    [] c = "U+05FF" -> 1535
      [] c = "U+0600" -> 1536    [] c = "U+0628" -> 1576    [] c = "U+06FF" -> 1791
      [] c = "U+0700" -> 1792    [] c = "U+303F" -> 12351   [] c = "U+3040" -> 12352
      [] c = "U+3053" -> 12371   [] c = "U+3061" -> 12385   [] c = "U+306B" -> 12395
      [] c = "U+306F" -> 12399   [] c = "U+3093" -> 12435   [] c = "U+30A0" -> 12448
      [] c = "U+30FF" -> 12543   [] c = "U+3100" -> 12544   [] c = "U+33FF" -> 13311
      [] c = "U+3400" -> 13312   [] c = "U+4DBF" -> 19903   [] c = "U+4DC0" -> 19904
      [] c = "U+4E00" -> 19968   [] c = "U+4E16" -> 19990   [] c = "U+4F60" -> 20320
      [] c = "U+597D" -> 22909   [] c = "U+754C" -> 30028   [] c = "U+9FFF" -> 40959
      [] c = "U+A000" -> 40960   [] c = "U+ABFF" -> 44031   [] c = "U+AC00" -> 44032
      [] c = "U+B155" -> 45397   [] c = "U+C138" -> 49464   [] c = "U+C548" -> 50504
      [] c = "U+C694" -> 50836   [] c = "U+D558" -> 54616   [] c = "U+D7AF" -> 55215
      [] c = "U+D7B0" -> 55216   [] c = "U+20000" -> 131072 [] c = "U+2A6DF" -> 173791
      [] c = "U+2A6E0" -> 173792
      [] OTHER -> 0

\* the word lists of detect_latin_language
stop_words ==
    [english |-> <<<<"t", "h", "e">>, <<"a", "n", "d">>, <<"o", "f">>,
               <<"t", "o">>, <<"a">>, <<"i", "n">>, <<"i", "s">>,
               <<"i", "t">>, <<"y", "o", "u">>, <<"t", "h", "a", "t">>>>,
     spanish |-> <<<<"e", "l">>, <<"l", "a">>, <<"d", "e">>,
               <<"q", "u", "e">>, <<"y">>, <<"a">>, <<"e", "n">>,
               <<"u", "n">>, <<"e", "s">>, <<"s", "e">>>>,
     french  |-> <<<<"l", "e">>, <<"d", "e">>, <<"e", "t">>, <<"U+00E0">>,
               <<"u", "n">>, <<"i", "l">>, <<"U+00EA", "t", "r", "e">>,
               <<"e", "t">>, <<"e", "n">>, <<"a", "v", "o", "i", "r">>>>,
     german  |-> <<<<"d", "e", "r">>, <<"d", "i", "e">>, <<"u", "n", "d">>,
               <<"i", "n">>, <<"d", "e", "n">>, <<"v", "o", "n">>,
               <<"z", "u">>, <<"d", "a", "s">>, <<"m", "i", "t">>,
               <<"s", "i", "c", "h">>>>]

\* the four scores of detect_latin_language, in the order of `scores`
latin_scores(t) ==
    LET text_lower == to_lowercase(t)
        \* s.matches(word).count(): the matches of the word as a substring,
        \* left to right, not overlapping
        RECURSIVE matches_count(_, _)
        matches_count(s, word) ==
            LET i == find_str(s, word)
            IN  IF i = -1 THEN 0
                ELSE 1 + matches_count(Slice(s, i + Len(word), Len(s)), word)
        RECURSIVE sum(_)
        sum(list) == IF list = <<>> THEN 0
                     ELSE matches_count(text_lower, Head(list)) + sum(Tail(list))
    IN  << <<"en", sum(stop_words.english)>>, <<"es", sum(stop_words.spanish)>>,
           <<"fr", sum(stop_words.french)>>, <<"de", sum(stop_words.german)>> >>

\* scores.into_iter().max_by_key(..): Iterator::max_by_key returns the last
\* of several maximal elements
detect_latin_language(t) ==
    LET scores == latin_scores(t)
        best == Max({scores[i][2] : i \in DOMAIN scores})
    IN  scores[Max({i \in DOMAIN scores : scores[i][2] = best})][1]

\* a detect_language that looks for kana before it looks for ideographs
detect_language_kana_first(t) ==
    LET any(ranges) == \E i \in 1..Len(t) : \E r \in ranges :
                           code_point(t[i]) >= r[1] /\ code_point(t[i]) <= r[2]
    IN  IF any({<<12352, 12447>>, <<12448, 12543>>}) THEN "ja"
        ELSE IF any({<<19968, 40959>>, <<13312, 19903>>, <<131072, 173791>>}) THEN "zh"
        ELSE IF any({<<44032, 55215>>}) THEN "ko"
        ELSE IF any({<<1024, 1279>>}) THEN "ru"
        ELSE IF any({<<1536, 1791>>}) THEN "ar"
        ELSE detect_latin_language(t)

\* the ranges are those of the matches! patterns: 4E00..9FFF, 3400..4DBF,
\* 20000..2A6DF; 3040..309F, 30A0..30FF; AC00..D7AF; 0400..04FF; 0600..06FF
detect_language(t) ==
    LET any(ranges) == \E i \in 1..Len(t) : \E r \in ranges :
                           code_point(t[i]) >= r[1] /\ code_point(t[i]) <= r[2]
    IN  IF any({<<19968, 40959>>, <<13312, 19903>>, <<131072, 173791>>}) THEN "zh"
        ELSE IF any({<<12352, 12447>>, <<12448, 12543>>}) THEN "ja"
        ELSE IF any({<<44032, 55215>>}) THEN "ko"
        ELSE IF any({<<1024, 1279>>}) THEN "ru"
        ELSE IF any({<<1536, 1791>>}) THEN "ar"
        ELSE detect_latin_language(t)

\* the call detect_language(text)
detect_language_call ==
    /\ api = "language" /\ pc = "call"
    /\ result' = detect_language(text)
    /\ pc' = "done"
    /\ UNCHANGED <<docvars, api, text, chunk_size, overlap, opts, para, sent, chr>>

\* the texts of test_detect_language
TestLanguageTexts ==
    [english  |-> <<"H", "e", "l", "l", "o", SP, "w", "o", "r", "l", "d">>,
     chinese  |-> <<"U+4F60", "U+597D", "U+4E16", "U+754C">>,
     japanese |-> <<"U+3053", "U+3093", "U+306B", "U+3061", "U+306F">>,
     korean   |-> <<"U+C548", "U+B155", "U+D558", "U+C138", "U+C694">>]

\* a text is made of at most MaxPieces of: the texts of test_detect_language,
\* stop words of the four lists, a space, a letter, one Cyrillic and one
\* Arabic letter, and the first and last character of every range with the
\* characters next to them
LangInit ==
    /\ api = "language" /\ pc = "call"
    /\ LET LanguagePieces ==
            {TestLanguageTexts[k] : k \in DOMAIN TestLanguageTexts}
              \cup {<<"t", "h", "e">>, <<"a", "n", "d">>, <<"e", "l">>,
                    <<"q", "u", "e">>, <<"l", "e">>, <<"e", "t">>,
                    <<"d", "e", "r">>, <<"u", "n", "d">>, <<"a">>,
                    <<"i", "n">>, <<"d", "e">>, <<"e", "n">>, <<"u", "n">>,
                    <<SP>>, <<"x">>}
              \cup {<<c>> : c \in {"U+0434", "U+0628",
                                   "U+03FF", "U+0400", "U+04FF", "U+0500",
                                   "U+05FF", "U+0600", "U+06FF", "U+0700",
                                   "U+303F", "U+3040", "U+30A0", "U+30FF", "U+3100",
                                   "U+33FF", "U+3400", "U+4DBF", "U+4DC0",
                                   "U+4E00", "U+9FFF", "U+A000",
                                   "U+ABFF", "U+AC00", "U+D7AF", "U+D7B0",
                                   "U+20000", "U+2A6DF", "U+2A6E0"}}
       IN  text \in Concatenations(LanguagePieces, MaxPieces)
    /\ chunk_size = 0 /\ overlap = 0 /\ opts = None
    /\ para = NoFrame /\ sent = NoFrame /\ chr = NoChars
    /\ result = <<>>
    /\ NoDocument

SpecLang == LangInit /\ [][detect_language_call]_vars

---------------------------------------------------------------------------
(* Claims about detect_language, checked under SpecLang *)

LanguageDetected == api = "language" /\ pc = "done"

\* the characters explored, by the Unicode block they are in
Ideographs == {"U+4E00", "U+4E16", "U+4F60", "U+597D", "U+754C", "U+9FFF",
               "U+3400", "U+4DBF", "U+20000", "U+2A6DF"}
Kana == {"U+3040", "U+3053", "U+3061", "U+306B", "U+306F", "U+3093",
         "U+30A0", "U+30FF"}
Hangul == {"U+AC00", "U+B155", "U+C138", "U+C548", "U+C694", "U+D558", "U+D7AF"}
Cyrillic == {"U+0400", "U+0434", "U+04FF"}
Arabic == {"U+0600", "U+0628", "U+06FF"}

Has(S) == \E i \in 1..Len(text) : text[i] \in S

\* the text has no ideograph, kana, Hangul, Cyrillic or Arabic character
LatinOnly == ~Has(Ideographs \cup Kana \cup Hangul \cup Cyrillic \cup Arabic)

\* C21: for a text without ideograph, kana, Hangul, Cyrillic or Arabic
\* character, detect_language returns "en" when no language has a count
\* strictly above the three others: on every tie for the maximum and when
\* all four counts are 0, as for the empty text.
C21_TieIsEnglish ==
    (LanguageDetected /\ LatinOnly) =>
        LET scores == latin_scores(text)
            strictly_highest(i) ==
                \A j \in DOMAIN scores : j # i => scores[j][2] < scores[i][2]
        IN  (~\E i \in DOMAIN scores : strictly_highest(i)) => result = "en"

\* the words of the text: what lies between spaces, in lower case
WordsOf(t) ==
    LET pieces == split(to_lowercase(t), <<SP>>)
    IN  {pieces[i] : i \in 1..Len(pieces)} \ {<<>>}

\* C22: detect_language("Hello world") is "en"; a text of Latin script in
\* which no word is a stop word of the Spanish, French or German list is
\* not classified es, fr or de (the letters "el" inside "Hello" are no word).
C22_StopWordsAreWords ==
    (LanguageDetected /\ LatinOnly) =>
        LET foreign == stop_words.spanish \o stop_words.french \o stop_words.german
        IN  /\ text = TestLanguageTexts.english => result = "en"
            /\ (\A i \in 1..Len(foreign) : foreign[i] \notin WordsOf(text)) =>
                   result \notin {"es", "fr", "de"}

\* C23: the scripts are looked for in the order ideograph ("zh"), kana
\* ("ja"), Hangul ("ko"), Cyrillic ("ru"), Arabic ("ar"); the first of them
\* that has a character anywhere in the text gives the result, whatever
\* other scripts and whatever English words the text holds; only a text with
\* none of them gets one of the results of the stop-word count.
C23_ScriptOrder ==
    LanguageDetected =>
        IF Has(Ideographs) THEN result = "zh"
        ELSE IF Has(Kana) THEN result = "ja"
        ELSE IF Has(Hangul) THEN result = "ko"
        ELSE IF Has(Cyrillic) THEN result = "ru"
        ELSE IF Has(Arabic) THEN result = "ar"
        ELSE result \in {"en", "es", "fr", "de"}

\* the kana of test_detect_language followed by its ideographs are "zh"
C23_Witness ==
    /\ LanguageDetected
    /\ text = TestLanguageTexts.japanese \o TestLanguageTexts.chinese
    /\ result = "zh"

---------------------------------------------------------------------------
(* CSV extractor: parse_csv (parsers/csv.rs), record by record.  The input *)
(* is described by its data records, the records after the header record:  *)
(* csv.records is their number, csv.malformed the position of the one the  *)
(* reader returns an error for (0 when there is none), csv.blank whether   *)
(* the fields of all records are empty.  The text built is described by    *)
(* csv.header (the "Headers: ..." paragraph), csv.data_lines (the lines    *)
(* pushed for records) and csv.marker (the truncation lines pushed).       *)

\* `if row_count > 10000`
RowLimit == 10000

\* the statements before the loop: reader.headers() is Ok for every input,
\* and the header paragraph is pushed with preserve_formatting only
parse_csv_call ==
    /\ api = "csv" /\ pc = "call"
    /\ csv' = [csv EXCEPT !.header = opts.preserve_formatting]
    /\ pc' = "records"
    /\ UNCHANGED <<api, text, chunk_size, overlap, opts, para, sent, chr, result,
                   filename, content, lib, file_type, trace, documents>>

\* one iteration of `for result in reader.records()`
parse_csv_step ==
    /\ api = "csv" /\ pc = "records"
    /\ csv.row_count < csv.records
    /\ IF csv.row_count + 1 = csv.malformed
       THEN /\ result' = Err(DocumentError("CsvError"))
            /\ pc' = "done"
            /\ csv' = csv
       ELSE /\ csv' = [csv EXCEPT
                          !.data_lines = @ + 1,
                          !.row_count = @ + 1,
                          !.marker = IF csv.row_count + 1 > RowLimit THEN @ + 1 ELSE @]
            /\ pc' = IF csv.row_count + 1 > RowLimit THEN "break" ELSE pc
            /\ result' = result
    /\ UNCHANGED <<api, text, chunk_size, overlap, opts, para, sent, chr,
                   filename, content, lib, file_type, trace, documents>>

\* after the loop: the test for an empty text, and the return
parse_csv_return ==
    /\ api = "csv"
    /\ pc = "break" \/ (pc = "records" /\ csv.row_count >= csv.records)
    /\ LET is_empty == /\ ~csv.header /\ csv.marker = 0
                        /\ (csv.data_lines = 0 \/ csv.blank)
       IN  result' = IF is_empty THEN Err(DocumentError("CsvError"))
                     ELSE Ok([header |-> csv.header, data_lines |-> csv.data_lines,
                              marker |-> csv.marker])
    /\ pc' = "done"
    /\ UNCHANGED <<api, text, chunk_size, overlap, opts, para, sent, chr,
                   filename, content, lib, file_type, trace, documents, csv>>

\* inputs with up to ExtraRecords data records and with RowLimit data records
\* give or take ExtraRecords; all records well-formed or the last one not
CsvInit ==
    /\ api = "csv" /\ pc = "call"
    /\ \E n \in (0..ExtraRecords) \cup ((RowLimit - ExtraRecords)..(RowLimit + ExtraRecords)) :
       \E bad \in {0, n} : \E blank \in BOOLEAN :
          csv = [NoCsv EXCEPT !.records = n, !.malformed = bad, !.blank = blank]
    /\ opts \in {[DefaultParseOptions EXCEPT !.preserve_formatting = f] : f \in BOOLEAN}
    /\ filename = <<>> /\ content = [bytes |-> <<>>, pad |-> 0, archive |-> <<>>]
    /\ lib = "fail" /\ file_type = "" /\ trace = <<>> /\ documents = <<>>
    /\ text = <<>> /\ chunk_size = 0 /\ overlap = 0
    /\ para = NoFrame /\ sent = NoFrame /\ chr = NoChars
    /\ result = <<>>

CsvNext ==
    \/ parse_csv_call
    \/ parse_csv_step
    \/ parse_csv_return

SpecCsv == CsvInit /\ [][CsvNext]_vars

---------------------------------------------------------------------------
(* Claim about parse_csv, checked under SpecCsv *)

\* C24: the text parse_csv returns has at most 10,000 data lines: for an
\* input with more than 10,000 data records it has the first 10,000 data
\* lines and then one marker line "... (truncated, too many rows)", and for
\* an input with at most 10,000 data records it has a line for every record
\* and no marker line.
C24_RowCap ==
    (api = "csv" /\ pc = "done" /\ result.ok) =>
        IF csv.records > RowLimit
        THEN result.val.data_lines = RowLimit /\ result.val.marker = 1
        ELSE result.val.data_lines = csv.records /\ result.val.marker = 0

=============================================================================
